---------------------------- MODULE Spec2Model ----------------------------
(***************************************************************************)
(* pygimplib: StringPatternGenerator (pgpath.py) and Setting               *)
(* (pgsetting.py).                                                         *)
(*                                                                         *)
(* Strings are sequences of one-character strings.  Python indexes are     *)
(* kept 0-based; Slice(s, a, b) is s[a:b].                                 *)
(***************************************************************************)
EXTENDS Integers, Sequences, FiniteSets, TLC

VARIABLES
  fieldMaps,   \* heap of `fields` dict objects: map id -> (field name -> callable)
  numGens,     \* heap of _generate_number generator objects: <<[padding, i], ...>>
  spg,         \* StringPatternGenerator instances: gen id -> instance record
  lastCall,    \* the call that produced the current state
  setting,     \* one Setting instance
  handlerLog,  \* invocations of value-changed event handlers, oldest first
  connected,   \* history: the handlers connected, oldest first, since the
               \* setting was made or a handler was last removed
  group,       \* the settings given to SettingPersistor: name -> Setting instance
  stores,      \* the stores given to SettingPersistor, in list order
  persistCalls, \* number of SettingPersistor calls made
  dictHeap,    \* heap of the dict objects held by an ImageIDsAndDirectoriesSetting
               \* and its caller: <<(image ID -> directory), ...>>
  idsSetting   \* one ImageIDsAndDirectoriesSetting instance

patternVars == <<fieldMaps, numGens, spg>>
settingVars == <<setting, handlerLog, connected>>
persistVars == <<group, stores, persistCalls>>
imageVars == <<dictHeap, idsSetting>>

vars == <<patternVars, lastCall, settingVars, persistVars, imageVars>>

-----------------------------------------------------------------------------
(* Bounds of the model. *)

\* longest enumerated pattern
MaxLen == 3
\* generate() calls per instance
MaxCalls == 3
\* longest enumerated pattern when two instances are built
MaxLenShared == 1
\* calls on a setting
MaxOps == 3
\* longest `options` list given to an EnumSetting
MaxOptions == 2
\* calls of SettingPersistor.load and SettingPersistor.save
MaxPersistCalls == 2

-----------------------------------------------------------------------------
(* Characters and Python string primitives. *)

NL == "\n"

DigitSeq == <<"0", "1", "2", "3", "4", "5", "6", "7", "8", "9">>

Digits == {DigitSeq[i] : i \in 1..10}

\* characters removed by unicode.strip()
Whitespace == {" ", NL}

DigitVal(c) == (CHOOSE i \in 1..10 : DigitSeq[i] = c) - 1

Max(a, b) == IF a >= b THEN a ELSE b

Min(a, b) == IF a <= b THEN a ELSE b

\* s[a:b] for 0 <= a, 0 <= b
Slice(s, a, b) == SubSeq(s, a + 1, Min(b, Len(s)))

\* s[a:]
SliceFrom(s, a) == SubSeq(s, a + 1, Len(s))

IsAllDigits(s) == \A i \in 1..Len(s) : s[i] \in Digits

RECURSIVE LStrip(_)
LStrip(s) ==
  IF s # <<>> /\ Head(s) \in Whitespace THEN LStrip(Tail(s)) ELSE s

RECURSIVE RStrip(_)
RStrip(s) ==
  IF s # <<>> /\ s[Len(s)] \in Whitespace
    THEN RStrip(SubSeq(s, 1, Len(s) - 1))
    ELSE s

\* unicode.strip()
Strip(s) == RStrip(LStrip(s))

\* s.find(c): the first 0-based index of c, or -1
Find(s, c) ==
  IF \E i \in 1..Len(s) : s[i] = c
    THEN (CHOOSE i \in 1..Len(s) : s[i] = c /\ \A j \in 1..(i - 1) : s[j] # c) - 1
    ELSE -1

\* s.replace(c + c, c): non-overlapping, left to right
RECURSIVE ReplaceDoubled(_, _)
ReplaceDoubled(s, c) ==
  IF Len(s) < 2 THEN s
  ELSE IF s[1] = c /\ s[2] = c
    THEN <<c>> \o ReplaceDoubled(SubSeq(s, 3, Len(s)), c)
    ELSE <<s[1]>> \o ReplaceDoubled(Tail(s), c)

\* int(s) for a digit string s
RECURSIVE IntOf(_)
IntOf(s) ==
  IF s = <<>> THEN 0
  ELSE 10 * IntOf(SubSeq(s, 1, Len(s) - 1)) + DigitVal(s[Len(s)])

\* str(n) for n >= 0
RECURSIVE StrOf(_)
StrOf(n) ==
  IF n < 10 THEN <<DigitSeq[n + 1]>>
  ELSE StrOf(n \div 10) \o <<DigitSeq[(n % 10) + 1]>>

\* "0" * n
RECURSIVE Zeros(_)
Zeros(n) == IF n <= 0 THEN <<>> ELSE <<"0">> \o Zeros(n - 1)

\* length of the longest run of digits that ends s
RECURSIVE DigitSuffixLen(_)
DigitSuffixLen(s) ==
  IF s # <<>> /\ s[Len(s)] \in Digits
    THEN 1 + DigitSuffixLen(SubSeq(s, 1, Len(s) - 1))
    ELSE 0

\* length of the longest run of digits that starts s
RECURSIVE DigitPrefixLen(_)
DigitPrefixLen(s) ==
  IF s # <<>> /\ Head(s) \in Digits THEN 1 + DigitPrefixLen(Tail(s)) ELSE 0

\* re.search(r"[0-9]+$", s).group(), <<>> when there is no match.  `$` matches
\* at the end of s and also just before a newline that ends s.
SearchDigitsAtEnd(s) ==
  LET core == IF s # <<>> /\ s[Len(s)] = NL THEN SubSeq(s, 1, Len(s) - 1) ELSE s
      n == DigitSuffixLen(core)
  IN SubSeq(core, Len(core) - n + 1, Len(core))

\* re.search(r"^[0-9]+", s).group(), <<>> when there is no match
SearchDigitsAtStart(s) == SubSeq(s, 1, DigitPrefixLen(s))


-----------------------------------------------------------------------------
(* StringPatternGenerator: values. *)

\* a string of pattern_parts
Literal(text) == [isField |-> FALSE, text |-> text, name |-> <<>>, args |-> <<>>]

\* a (field name, field arguments) tuple of pattern_parts
Field(name, args) == [isField |-> TRUE, text |-> <<>>, name |-> name, args |-> args]

\* what inspect.getargspec reports of a callable passed in `fields`
UserFunc(nargs, ndefaults, varargs, keywords) ==
  [kind |-> "user", nargs |-> nargs, ndefaults |-> ndefaults,
   varargs |-> varargs, keywords |-> keywords, gen |-> 0]

\* `lambda: next(number_generator)`, bound to the generator object numGens[gen]
NumberFunc(gen) ==
  [kind |-> "number", nargs |-> 0, ndefaults |-> 0,
   varargs |-> FALSE, keywords |-> FALSE, gen |-> gen]

\* the string a field callable of the caller returns for its arguments
RECURSIVE JoinArgs(_)
JoinArgs(args) ==
  IF args = <<>> THEN <<>> ELSE <<":">> \o Head(args) \o JoinArgs(Tail(args))

FieldFunc(name, args) == <<"<">> \o name \o JoinArgs(args) \o <<">">>

\* dict[key] = value
DictSet(d, key, value) ==
  [k \in (DOMAIN d) \cup {key} |-> IF k = key THEN value ELSE d[k]]

EmptyDict == [k \in {} |-> 0]

-----------------------------------------------------------------------------
(* StringPatternGenerator: parsing. *)

\* a parser that knows no doubled brackets
_is_field_symbol_escaped_never(pattern, index, symbol) == FALSE

_is_field_symbol_escaped(pattern, index, symbol) ==
  index + 1 < Len(pattern) /\ pattern[index + 2] = symbol

\* re.search(r"^[0-9]+$", field_name)
_is_field_number(field_name) ==
  LET m == SearchDigitsAtEnd(field_name)
  IN m # <<>> /\ DigitPrefixLen(field_name) = Len(m)
     /\ Len(field_name) - Len(m) \in {0, 1}
     /\ (Len(field_name) - Len(m) = 1 => field_name[Len(field_name)] = NL)

\* a check that takes **kwargs for *args
_is_field_valid_allowing_keywords(fields, field) ==
  LET argspec == fields[field.name]
      num_mandatory_args == argspec.nargs - argspec.ndefaults
  IN IF ~argspec.varargs /\ ~argspec.keywords
          /\ (Len(field.args) < num_mandatory_args \/ Len(field.args) > argspec.nargs)
       THEN [raised |-> FALSE, valid |-> FALSE]
       ELSE [raised |-> FALSE, valid |-> TRUE]

\* a check that forgets the upper bound of the argument count
_is_field_valid_without_upper_bound(fields, field) ==
  LET argspec == fields[field.name]
      num_mandatory_args == argspec.nargs - argspec.ndefaults
  IN IF argspec.keywords THEN [raised |-> TRUE, valid |-> FALSE]
     ELSE IF ~argspec.varargs /\ Len(field.args) < num_mandatory_args
       THEN [raised |-> FALSE, valid |-> FALSE]
       ELSE [raised |-> FALSE, valid |-> TRUE]

\* raised: ValueError for **kwargs; otherwise valid is the value returned
_is_field_valid(fields, field) ==
  LET argspec == fields[field.name]
      num_mandatory_args == argspec.nargs - argspec.ndefaults
  IN IF argspec.keywords THEN [raised |-> TRUE, valid |-> FALSE]
     ELSE IF ~argspec.varargs
             /\ (Len(field.args) < num_mandatory_args \/ Len(field.args) > argspec.nargs)
       THEN [raised |-> FALSE, valid |-> FALSE]
       ELSE [raised |-> FALSE, valid |-> TRUE]

\* _parse_field._process_field_args
RECURSIVE _process_field_args(_)
_process_field_args(field_args) ==
  IF field_args = <<>> THEN <<>>
  ELSE
    LET stripped == Strip(Head(field_args))
        unwrapped ==
          IF stripped # <<>> /\ stripped[1] = "[" /\ stripped[Len(stripped)] = "]"
            THEN SubSeq(stripped, 2, Len(stripped) - 1)
            ELSE stripped
        processed_arg == ReplaceDoubled(ReplaceDoubled(unwrapped, "["), "]")
    IN IF stripped = <<>>
         THEN _process_field_args(Tail(field_args))
         ELSE <<processed_arg>> \o _process_field_args(Tail(field_args))

\* the while loop of _parse_field over field_args_str
RECURSIVE SplitFieldArgs(_, _, _, _, _)
SplitFieldArgs(field_args_str, index, is_in_field_arg, last_field_arg_end_index, field_args) ==
  IF index >= Len(field_args_str) THEN field_args
  ELSE
    LET c == field_args_str[index + 1]
    IN IF c = "," THEN
         IF is_in_field_arg
           THEN SplitFieldArgs(field_args_str, index + 1, is_in_field_arg,
                               last_field_arg_end_index, field_args)
           ELSE SplitFieldArgs(field_args_str, index + 1, is_in_field_arg, index + 1,
                               Append(field_args,
                                      Slice(field_args_str, last_field_arg_end_index, index)))
       ELSE IF c = "[" THEN
         IF _is_field_symbol_escaped(field_args_str, index, "[")
           THEN SplitFieldArgs(field_args_str, index + 2, is_in_field_arg,
                               last_field_arg_end_index, field_args)
           ELSE SplitFieldArgs(field_args_str, index + 1, TRUE,
                               last_field_arg_end_index, field_args)
       ELSE IF c = "]" THEN
         IF _is_field_symbol_escaped(field_args_str, index, "]")
           THEN SplitFieldArgs(field_args_str, index + 2, is_in_field_arg,
                               last_field_arg_end_index, field_args)
           ELSE SplitFieldArgs(field_args_str, index + 1, FALSE,
                               last_field_arg_end_index, field_args)
       ELSE SplitFieldArgs(field_args_str, index + 1, is_in_field_arg,
                           last_field_arg_end_index, field_args)

_parse_field(field_str) ==
  LET field_name_end_index == Find(field_str, ",")
  IN IF field_name_end_index = -1
       THEN Field(Strip(field_str), <<>>)
       ELSE
         LET field_name == Strip(Slice(field_str, 0, field_name_end_index))
             field_args_str == SliceFrom(field_str, field_name_end_index + 1) \o <<",">>
         IN Field(field_name,
                  _process_field_args(SplitFieldArgs(field_args_str, 0, FALSE, 0, <<>>)))

\* the number generator object made by _generate_number(padding, initial_number)
_generate_number(padding, initial_number) == [padding |-> padding, i |-> initial_number]

\* _add_number_field on the parse state st: a new generator object on the heap,
\* appended to _number_generators, and stored into the `fields` dict
_add_number_field(st, field_name) ==
  LET number_generator == _generate_number(Len(field_name), IntOf(Strip(field_name)))
      id == Len(st.heap) + 1
  IN [st EXCEPT !.heap = Append(st.heap, number_generator),
                !.number_generators = Append(st.number_generators, id),
                !.fields = DictSet(st.fields, field_name, NumberFunc(id))]

\* _parse_pattern._add_substring; end_index = -1 stands for None
_add_substring(pattern, st, end_index) ==
  LET start_index == Max(st.last_constant_substring_index, st.start_of_field_index)
  IN Append(st.pattern_parts,
            Literal(IF end_index # -1
                      THEN Slice(pattern, start_index, end_index)
                      ELSE SliceFrom(pattern, start_index)))

\* lines 275-290: a "]" closed the field opened at start_of_field_index
CloseField(pattern, st) ==
  LET field == _parse_field(Slice(pattern, st.start_of_field_index + 1, st.index))
      named == field.name \in DOMAIN st.fields
      check == IF named THEN _is_field_valid(st.fields, field)
                        ELSE [raised |-> FALSE, valid |-> FALSE]
      st1 == [st EXCEPT !.field_depth = 0]
      st2 ==
        IF check.raised THEN [st1 EXCEPT !.raised = TRUE]
        ELSE IF check.valid THEN
          [st1 EXCEPT !.has_fields = TRUE,
                      !.pattern_parts = Append(st1.pattern_parts, field)]
        ELSE IF _is_field_number(field.name) /\ field.args = <<>> THEN
          LET added == _add_number_field(st1, field.name)
          IN [added EXCEPT !.has_fields = TRUE,
                           !.has_pattern_number_field = TRUE,
                           !.pattern_parts = Append(added.pattern_parts, field)]
        ELSE [st1 EXCEPT !.pattern_parts = _add_substring(pattern, st1, st1.index + 1)]
  IN [st2 EXCEPT !.last_constant_substring_index = st.index + 1,
                 !.index = st.index + 1]

\* a parser that ends the literal text at a "]" it cannot match and leaves the
\* bracket out
SkipClosingBracket_dropping(pattern, st) ==
  [st EXCEPT !.pattern_parts = _add_substring(pattern, st, st.index),
             !.last_constant_substring_index = st.index + 1,
             !.index = st.index + 1]

\* lines 262-264: a "]" at depth 0 that is not doubled
SkipClosingBracket(pattern, st) == [st EXCEPT !.index = st.index + 1]

\* one iteration of the while loop of _parse_pattern
ParseStep(pattern, st) ==
  LET index == st.index
      c == pattern[index + 1]
      is_escaped == _is_field_symbol_escaped(pattern, index, c)
      depth == st.field_depth
  IN IF c = "[" THEN
       IF depth = 0 /\ is_escaped THEN
         [st EXCEPT !.pattern_parts = Append(_add_substring(pattern, st, index), Literal(<<"[">>)),
                    !.last_constant_substring_index = index + 2,
                    !.index = index + 2]
       ELSE IF depth = 0 THEN
         [st EXCEPT !.pattern_parts = _add_substring(pattern, st, index),
                    !.start_of_field_index = index,
                    !.field_depth = depth + 1,
                    !.index = index + 1]
       ELSE IF depth = 1 THEN
         [st EXCEPT !.field_depth = depth + 1, !.index = index + 1]
       ELSE IF is_escaped THEN
         [st EXCEPT !.index = index + 2]
       ELSE
         [st EXCEPT !.field_depth = depth + 1, !.index = index + 1]
     ELSE IF c = "]" THEN
       IF depth = 0 /\ is_escaped THEN
         [st EXCEPT !.pattern_parts = Append(_add_substring(pattern, st, index), Literal(<<"]">>)),
                    !.last_constant_substring_index = index + 2,
                    !.index = index + 2]
       ELSE IF depth = 0 THEN
         SkipClosingBracket(pattern, st)
       ELSE IF depth = 1 THEN
         CloseField(pattern, st)
       ELSE IF is_escaped THEN
         [st EXCEPT !.index = index + 2]
       ELSE
         [st EXCEPT !.field_depth = depth - 1, !.index = index + 1]
     ELSE [st EXCEPT !.index = index + 1]

RECURSIVE ParseLoop(_, _)
ParseLoop(pattern, st) ==
  IF st.raised \/ st.index >= Len(pattern) THEN st
  ELSE ParseLoop(pattern, ParseStep(pattern, st))

\* _parse_number on the parse state st (pattern_parts, has_fields)
_parse_number(st) ==
  LET parts == st.pattern_parts
      n == Len(parts)
      last == parts[n].text
      first == parts[1].text
      at_end == SearchDigitsAtEnd(last)
      at_start == SearchDigitsAtStart(first)
  IN IF at_end # <<>> THEN
       _add_number_field(
         [st EXCEPT !.pattern_parts =
            Append([parts EXCEPT ![n] = Literal(Slice(last, 0, Len(last) - Len(at_end)))],
                   Field(at_end, <<>>))],
         at_end)
     ELSE IF at_start # <<>> THEN
       _add_number_field(
         [st EXCEPT !.pattern_parts =
            <<Field(at_start, <<>>)>>
              \o [parts EXCEPT ![1] = Literal(SliceFrom(first, Len(at_start)))]],
         at_start)
     ELSE IF st.has_fields THEN st
     ELSE _add_number_field(
            [st EXCEPT !.pattern_parts = Append(parts, Field(<<"0", "0", "1">>, <<>>))],
            <<"0", "0", "1">>)

\* The start of _parse_pattern: the state before the loop
ParseStart(fields, heap) ==
  [index |-> 0, start_of_field_index |-> 0,
   last_constant_substring_index |-> 0,
   has_pattern_number_field |-> FALSE, has_fields |-> FALSE,
   field_depth |-> 0, pattern_parts |-> <<>>,
   fields |-> fields, heap |-> heap, number_generators |-> <<>>,
   raised |-> FALSE]

\* a parser that infers a number even when the pattern has a number field
_parse_pattern_always_infers(pattern, fields, heap) ==
  LET looped == ParseLoop(pattern, ParseStart(fields, heap))
  IN IF looped.raised THEN looped
     ELSE _parse_number([looped EXCEPT !.pattern_parts = _add_substring(pattern, looped, -1)])

\* _parse_pattern(pattern, fields) with the heap of generator objects: the final
\* parse state (pattern_parts, the updated `fields` dict and heap, raised)
_parse_pattern(pattern, fields, heap) ==
  LET looped == ParseLoop(pattern, ParseStart(fields, heap))
      st1 == [looped EXCEPT !.pattern_parts = _add_substring(pattern, looped, -1)]
  IN IF looped.raised THEN looped
     ELSE IF ~st1.has_pattern_number_field THEN _parse_number(st1)
     ELSE st1

-----------------------------------------------------------------------------
(* StringPatternGenerator: generation. *)

\* a generator that forgets the zero padding
NextNumber_unpadded(g) == StrOf(g.i)

\* next(number_generator): the string yielded by the generator object g
NextNumber(g) ==
  LET str_i == StrOf(g.i)
  IN IF Len(str_i) < g.padding THEN Zeros(g.padding - Len(str_i)) \o str_i ELSE str_i

\* whether Python accepts the call func(*args)
Callable(func, args) ==
  /\ Len(args) >= func.nargs - func.ndefaults
  /\ func.varargs \/ Len(args) <= func.nargs

\* _process_field: the field's string and the heap after the call; raised when
\* the call of the field's callable is a TypeError
_process_field(fields, heap, field) ==
  LET func == fields[field.name]
  IN IF ~Callable(func, field.args)
       THEN [str |-> <<>>, heap |-> heap, raised |-> TRUE]
     ELSE IF func.kind = "number"
       THEN [str |-> NextNumber(heap[func.gen]),
             heap |-> [heap EXCEPT ![func.gen].i = heap[func.gen].i + 1],
             raised |-> FALSE]
       ELSE [str |-> FieldFunc(field.name, field.args), heap |-> heap, raised |-> FALSE]

\* the loop of generate() over pattern_parts, joined: [out, heap, raised]
RECURSIVE GenerateParts(_, _, _)
GenerateParts(parts, fields, heap) ==
  IF parts = <<>> THEN [out |-> <<>>, heap |-> heap, raised |-> FALSE]
  ELSE IF ~Head(parts).isField THEN
    LET rest == GenerateParts(Tail(parts), fields, heap)
    IN [rest EXCEPT !.out = Head(parts).text \o rest.out]
  ELSE
    LET done == _process_field(fields, heap, Head(parts))
        rest == GenerateParts(Tail(parts), fields, done.heap)
    IN IF done.raised THEN [out |-> <<>>, heap |-> done.heap, raised |-> TRUE]
       ELSE [rest EXCEPT !.out = done.str \o rest.out]

-----------------------------------------------------------------------------
(* StringPatternGenerator: inputs of the model. *)

Alphabet == {"f", "1", "[", "]", ",", NL}

\* the patterns of the class docstring and of this development's cases
ExamplePatterns ==
  { <<"i", "m", "a", "g", "e">>,
    <<"i", "m", "a", "g", "e", "1">>,
    <<"0", "0", "1", "_", "i", "m", "a", "g", "e">>,
    <<"i", "m", "a", "g", "e", "0", "0", "5">>,
    <<"i", "m", "a", "g", "e", "0", "0", "1", "_", "1", "2", "3", "4">>,
    <<"i", "m", "a", "g", "e", "[", "0", "0", "1", "]", "_", "1", "2", "3", "4">>,
    <<"[", "[", "i", "m", "a", "g", "e", "]", "]">>,
    <<"i", "m", "a", "g", "e", "_", "[", "f", ",", " ", "%", "Y", "]", "_", "0", "0", "1">>,
    <<"[", "f", ",", " ", "[", "[", "[", "%", "Y", ",", "%", "m", "]", "]", "]", ",", "]", "_", "0", "0", "1">>,
    <<"[", "f", "]">>,
    <<"[", "[", "f", "]", "]">>,
    <<"x", "[", "f", "]", "y">>,
    <<"1", "[", "f", "]", "y">>,
    <<"[", "f", "]", "1", NL>>,
    <<"i", "m", "g", "9", "9">>,
    <<"[", "9", "]", "_", "[", "0", "9", "8", "]">>,
    <<"[", "0", "1", "]", "[", "0", "1", "]">>,
    <<"a", "]", "b">>,
    <<"[", "f", ",", "1", ",", "1", "]">>,
    <<"x", "[", "f", ",", "1", "]", "1">>,
    <<"1", "x", "[", "f", "]", "y">> }

Patterns == (UNION {[1..n -> Alphabet] : n \in 0..MaxLen}) \cup ExamplePatterns

SharedPatterns ==
  (UNION {[1..n -> {"f", "1"}] : n \in 0..MaxLenShared})
    \cup {<<"[", "1", "]">>, <<"[", "f", "]">>}

FieldName == <<"f">>

\* the `fields` dicts a caller passes: empty, or one callable named "f"
UserFields ==
  {EmptyDict}
    \cup {DictSet(EmptyDict, FieldName, func) :
            func \in {UserFunc(0, 0, FALSE, FALSE), UserFunc(1, 0, FALSE, FALSE),
                      UserFunc(1, 1, FALSE, FALSE), UserFunc(1, 0, TRUE, FALSE),
                      UserFunc(0, 0, FALSE, TRUE)}}

-----------------------------------------------------------------------------
(* StringPatternGenerator: the instances. *)

GenIds == {1, 2}

NoGenerator ==
  [status |-> "none", pattern |-> <<>>, fields |-> 0, pattern_parts |-> <<>>,
   number_generators |-> <<>>, calls |-> 0, out |-> <<>>]

NoSetting ==
  [status |-> "none", kind |-> "generic", value |-> 0, default_value |-> 0,
   has_min |-> FALSE, min_value |-> 0, has_max |-> FALSE, max_value |-> 0,
   options |-> <<>>, option_values |-> {},
   handler |-> 0, handler_args |-> <<>>, ops |-> 0]

\* no ImageIDsAndDirectoriesSetting was made yet; _value and _default_value
\* are references into dictHeap
NoIdsSetting == [status |-> "none", _value |-> 0, _default_value |-> 0, given |-> <<>>, ops |-> 0]

\* a call: its name, the instance called, its argument, how it ended, and the
\* value of the setting before it (0 for the calls of a generator)
Call(op, target, arg, result, was) ==
  [op |-> op, target |-> target, arg |-> arg, result |-> result, was |-> was]

\* StringPatternGenerator.__init__(pattern, fields) for instance g; fields = 0
\* stands for None, otherwise it is the id of a dict of the caller
New(g, pattern, fields) ==
  /\ spg[g].status = "none"
  /\ LET maps == IF fields = 0 THEN Append(fieldMaps, EmptyDict) ELSE fieldMaps
         id == IF fields = 0 THEN Len(maps) ELSE fields
         parsed == _parse_pattern(pattern, maps[id], numGens)
     IN /\ fieldMaps' = [maps EXCEPT ![id] = parsed.fields]
        /\ numGens' = parsed.heap
        /\ spg' = [spg EXCEPT ![g] =
                     [status |-> IF parsed.raised THEN "error" ELSE "built",
                      pattern |-> pattern, fields |-> id,
                      pattern_parts |-> IF parsed.raised THEN <<>> ELSE parsed.pattern_parts,
                      number_generators |-> parsed.number_generators,
                      calls |-> 0, out |-> <<>>]]
        /\ lastCall' = Call("new", g, 0, IF parsed.raised THEN "ValueError" ELSE "ok", 0)
  /\ UNCHANGED <<settingVars, persistVars, imageVars>>

\* StringPatternGenerator.generate() on instance g
generate(g) ==
  /\ spg[g].status = "built"
  /\ spg[g].calls < MaxCalls
  /\ LET done == GenerateParts(spg[g].pattern_parts, fieldMaps[spg[g].fields], numGens)
     IN /\ numGens' = done.heap
        /\ spg' = [spg EXCEPT ![g].calls = @ + 1,
                              ![g].out = IF done.raised THEN <<>> ELSE done.out]
        /\ lastCall' = Call("generate", g, 0, IF done.raised THEN "TypeError" ELSE "ok", 0)
  /\ UNCHANGED <<fieldMaps, settingVars, persistVars, imageVars>>

\* one instance, built on a dict that no other instance uses
InitPattern ==
  /\ fieldMaps \in {<<fields>> : fields \in UserFields}
  /\ numGens = <<>>
  /\ spg = [g \in GenIds |-> NoGenerator]
  /\ lastCall = Call("init", 0, 0, "ok", 0)
  /\ setting = NoSetting
  /\ handlerLog = <<>>
  /\ connected = <<>>
  /\ group = <<>>
  /\ stores = <<>>
  /\ persistCalls = 0
  /\ dictHeap = <<>>
  /\ idsSetting = NoIdsSetting

NewOne == \E pattern \in Patterns : New(1, pattern, 1)

GenerateOne == generate(1)

NextPattern == NewOne \/ GenerateOne

SpecPattern == InitPattern /\ [][NextPattern]_vars

-----------------------------------------------------------------------------
(* StringPatternGenerator: properties of one instance. *)

G == spg[1]

\* generate() has returned a string at least once, the last call included
Returned == G.status = "built" /\ G.calls >= 1 /\ lastCall.result = "ok"

\* the callables the caller put into the dict of instance 1
UserNames == {k \in DOMAIN fieldMaps[1] : fieldMaps[1][k].kind = "user"}

\* n in decimal, left-padded with zeros to width characters
Pad(n, width) == Zeros(width - Len(StrOf(n))) \o StrOf(n)

HasNo(s, chars) == \A i \in 1..Len(s) : s[i] \notin chars

Brackets == {"[", "]"}

Image == <<"i", "m", "a", "g", "e">>

\* C1: a pattern without brackets and digits, built on an empty field mapping,
\* returns on its k-th generate() call the pattern followed by k in decimal,
\* zero-padded to 3 digits.
C1_PlainPatternAppendsCounter ==
  (Returned /\ UserNames = {} /\ HasNo(G.pattern, Brackets \cup Digits))
    => G.out = G.pattern \o Pad(G.calls, 3)

C1_Witness ==
  Returned /\ UserNames = {} /\ G.pattern = Image /\ G.calls = 2
    /\ G.out = Image \o <<"0", "0", "2">>

\* a pattern made only of doubled brackets and of characters that are neither
\* brackets nor digits
RECURSIVE IsEscapedOnly(_)
IsEscapedOnly(p) ==
  IF p = <<>> THEN TRUE
  ELSE IF p[1] \in Brackets
    THEN Len(p) >= 2 /\ p[2] = p[1] /\ IsEscapedOnly(SubSeq(p, 3, Len(p)))
    ELSE p[1] \notin Digits /\ IsEscapedOnly(Tail(p))

\* such a pattern with each doubled bracket written once
RECURSIVE Unescaped(_)
Unescaped(p) ==
  IF p = <<>> THEN <<>>
  ELSE IF p[1] \in Brackets
    THEN <<p[1]>> \o Unescaped(SubSeq(p, 3, Len(p)))
    ELSE <<p[1]>> \o Unescaped(Tail(p))

\* C2: at depth 0 each doubled bracket is rendered as one literal bracket and
\* opens or closes no field, whatever the field mapping: a pattern of doubled
\* brackets and plain characters returns, on the k-th call, its text with the
\* brackets written once, followed by the 3-digit counter k.
C2_DoubledBracketIsLiteral ==
  (Returned /\ IsEscapedOnly(G.pattern))
    => G.out = Unescaped(G.pattern) \o Pad(G.calls, 3)

C2_Witness ==
  /\ Returned /\ G.calls = 2
  /\ \/ G.pattern = <<"[", "[">> \o Image \o <<"]", "]">>
        /\ G.out = <<"[">> \o Image \o <<"]", "0", "0", "2">>
     \/ G.pattern = <<"[", "[", "f", "]", "]">> /\ UserNames # {}
        /\ G.out = <<"[", "f", "]", "0", "0", "2">>

\* the patterns  pre [d] post  with d a digit string and no other bracket
IsOneNumberField(p) ==
  LET open == Find(p, "[")
      close == Find(p, "]")
  IN /\ open # -1 /\ close > open + 1
     /\ HasNo(SliceFrom(p, open + 1), {"["})
     /\ HasNo(SliceFrom(p, close + 1), {"]"})
     /\ IsAllDigits(Slice(p, open + 1, close))

\* C3: with a bracketed all-digit field without arguments no number is
\* inferred from the literal text: in  pre [d] post  the texts pre and post are
\* returned unchanged on every call, digits included, and the k-th call puts
\* int(d) + k - 1, zero-padded to len(d), in the place of the field.
C3_NumberFieldStopsInference ==
  (Returned /\ IsOneNumberField(G.pattern))
    => LET open == Find(G.pattern, "[")
           close == Find(G.pattern, "]")
           d == Slice(G.pattern, open + 1, close)
       IN G.out = Slice(G.pattern, 0, open)
                    \o Pad(IntOf(d) + G.calls - 1, Len(d))
                    \o SliceFrom(G.pattern, close + 1)

C3_Witness ==
  /\ Returned /\ G.calls = 2
  /\ G.pattern = Image \o <<"[", "0", "0", "1", "]", "_", "1", "2", "3", "4">>
  /\ G.out = Image \o <<"0", "0", "2", "_", "1", "2", "3", "4">>

\* the patterns  pre [f] post  with no other bracket, f a callable of the
\* mapping that takes no argument
IsOneNamedField(p) ==
  LET open == Find(p, "[")
      close == Find(p, "]")
  IN /\ open # -1 /\ close > open
     /\ HasNo(SliceFrom(p, open + 1), {"["})
     /\ HasNo(SliceFrom(p, close + 1), {"]"})
     /\ Slice(p, open + 1, close) = FieldName
     /\ FieldName \in UserNames
     /\ fieldMaps[1][FieldName].nargs = fieldMaps[1][FieldName].ndefaults
     /\ ~fieldMaps[1][FieldName].keywords

\* the text before the field, the rendered field and the text after it; a
\* pattern without brackets is all "text after"
TextBefore(p) ==
  IF HasNo(p, Brackets) THEN <<>> ELSE Slice(p, 0, Find(p, "["))

TextAfter(p) ==
  IF HasNo(p, Brackets) THEN p ELSE SliceFrom(p, Find(p, "]") + 1)

FieldText(p) ==
  IF HasNo(p, Brackets) THEN <<>> ELSE FieldFunc(FieldName, <<>>)

\* the k-th string when the digits that end `after` are the counter, when the
\* digits that start `before` are, and when there is no counter
CountAtEnd(before, field, after, k) ==
  LET n == DigitSuffixLen(after)
      d == SubSeq(after, Len(after) - n + 1, Len(after))
  IN before \o field \o SubSeq(after, 1, Len(after) - n) \o Pad(IntOf(d) + k - 1, n)

CountAtStart(before, field, after, k) ==
  LET first == IF before = <<>> /\ field = <<>> THEN after ELSE before
      n == DigitPrefixLen(first)
      d == SubSeq(first, 1, n)
      rest == SubSeq(first, n + 1, Len(first))
  IN Pad(IntOf(d) + k - 1, n)
       \o (IF before = <<>> /\ field = <<>> THEN rest ELSE rest \o field \o after)

\* C4: without an explicit number field one counter at most is inferred: the
\* digits that end the literal text after the last field; only when that text
\* does not end in digits, the digits that start the first literal text.  All
\* other digits stay literal.
C4_InferencePriority ==
  (Returned /\ (HasNo(G.pattern, Brackets) \/ IsOneNamedField(G.pattern)))
    => LET before == TextBefore(G.pattern)
           field == FieldText(G.pattern)
           after == TextAfter(G.pattern)
           first == IF HasNo(G.pattern, Brackets) THEN after ELSE before
       IN IF DigitSuffixLen(after) > 0
            THEN G.out = CountAtEnd(before, field, after, G.calls)
          ELSE IF DigitPrefixLen(first) > 0
            THEN G.out = CountAtStart(before, field, after, G.calls)
          ELSE TRUE

\* C5: with an accepted named field, no number field, no digits ending the last
\* literal text and none starting the first, there is no counter: every call
\* returns the same string.
C5_NamedFieldWithoutCounter ==
  (Returned /\ IsOneNamedField(G.pattern)
     /\ DigitSuffixLen(TextAfter(G.pattern)) = 0
     /\ DigitPrefixLen(TextBefore(G.pattern)) = 0)
    => G.out = TextBefore(G.pattern) \o FieldText(G.pattern) \o TextAfter(G.pattern)

\* the string of the k-th call when every number field of pattern_parts counts
\* from its own digit string
RECURSIVE ExpectedOut(_, _)
ExpectedOut(parts, k) ==
  IF parts = <<>> THEN <<>>
  ELSE LET part == Head(parts)
           str == IF ~part.isField THEN part.text
                  ELSE IF part.name \in UserNames THEN FieldFunc(part.name, part.args)
                  ELSE Pad(IntOf(part.name) + k - 1, Len(part.name))
       IN str \o ExpectedOut(Tail(parts), k)

\* C6: every auto-increment field taken from a digit string d is rendered on the
\* k-th call as int(d) + k - 1, zero-padded to len(d) and never truncated; a
\* generate() call advances each counter by exactly 1.
C6_CounterAdvancesByOne ==
  Returned
    => /\ G.out = ExpectedOut(G.pattern_parts, G.calls)
       /\ \A j \in 1..Len(G.pattern_parts) :
            LET part == G.pattern_parts[j]
            IN (part.isField /\ fieldMaps[1][part.name].kind = "number")
                 => numGens[fieldMaps[1][part.name].gen].i = IntOf(part.name) + G.calls

\* the patterns  before [inside] after  with no other bracket
SingleSpan(p) ==
  LET open == Find(p, "[")
      close == Find(p, "]")
  IN /\ open # -1 /\ close > open
     /\ HasNo(SliceFrom(p, open + 1), {"["})
     /\ HasNo(SliceFrom(p, close + 1), {"]"})

\* the text before the span, the span with its brackets, the text after it,
\* and the name and the arguments written in it
SpanBefore(p) == Slice(p, 0, Find(p, "["))

SpanText(p) == Slice(p, Find(p, "["), Find(p, "]") + 1)

SpanAfter(p) == SliceFrom(p, Find(p, "]") + 1)

SpanField(p) == _parse_field(Slice(p, Find(p, "[") + 1, Find(p, "]")))

\* the span is a reference to a callable the caller put into the mapping
RefersToUser(p) == SpanField(p).name \in UserNames

SpanFunc(p) == fieldMaps[1][SpanField(p).name]

\* the span was taken as a field: pattern_parts holds its (name, arguments)
Accepted(p) == \E j \in DOMAIN G.pattern_parts : G.pattern_parts[j] = SpanField(p)

\* sub occurs in s
Contains(s, sub) ==
  \E i \in 0..(Len(s) - Len(sub)) : SubSeq(s, i + 1, i + Len(sub)) = sub

\* C24: a reference to a callable that takes *args is accepted as a field if
\* and only if it has at least as many arguments as the callable has mandatory
\* parameters; with fewer it is literal text.
C24_VarargsLowerBoundApplies ==
  (G.status = "built" /\ SingleSpan(G.pattern) /\ RefersToUser(G.pattern)
     /\ SpanFunc(G.pattern).varargs /\ ~SpanFunc(G.pattern).keywords)
    => Accepted(G.pattern)
         = (Len(SpanField(G.pattern).args)
              >= SpanFunc(G.pattern).nargs - SpanFunc(G.pattern).ndefaults)

\* no "]" directly follows another one
NoDoubled(p, c) == \A i \in 1..(Len(p) - 1) : ~(p[i] = c /\ p[i + 1] = c)

\* C25 as stated: a "]" at depth 0 that is not doubled and closes no field is
\* dropped: no returned string holds it.
C25_UnmatchedClosingBracketIsDropped ==
  (Returned /\ HasNo(G.pattern, {"["}) /\ NoDoubled(G.pattern, "]"))
    => HasNo(G.out, {"]"})

\* C25 as amended: such a "]" is literal text: a pattern without "[" and
\* without digits, whose "]" are all single, is returned as written, brackets
\* included, followed by the 3-digit counter.
C25_UnmatchedClosingBracketIsLiteral ==
  (Returned /\ HasNo(G.pattern, {"["} \cup Digits) /\ NoDoubled(G.pattern, "]"))
    => G.out = G.pattern \o Pad(G.calls, 3)

C25_Witness ==
  /\ Returned /\ G.calls = 2
  /\ G.pattern = <<"a", "]", "b">>
  /\ G.out = <<"a", "]", "b", "0", "0", "2">>

\* the span is neither a reference with a compatible argument count nor an
\* all-digit field without arguments
IsLiteralSpan(p) ==
  LET field == SpanField(p)
      n == Len(field.args)
  IN /\ SingleSpan(p)
     /\ field.name \in UserNames
          => LET func == fieldMaps[1][field.name]
             IN ~(/\ ~func.keywords
                  /\ func.nargs - func.ndefaults <= n
                  /\ func.varargs \/ n <= func.nargs)
     /\ ~(IsAllDigits(field.name) /\ field.name # <<>> /\ n = 0)

\* C26: a bracketed span that is neither an accepted named field nor an
\* all-digit field without arguments is returned as written, brackets included,
\* between the text before it and the text after it, each rendered once and in
\* pattern order; the only change to those texts is the counter: the digits
\* ending the text after the span, else the digits starting the text before it,
\* else a 3-digit counter appended.
C26_RejectedSpanIsLiteral ==
  (Returned /\ IsLiteralSpan(G.pattern))
    => LET before == SpanBefore(G.pattern)
           span == SpanText(G.pattern)
           after == SpanAfter(G.pattern)
       IN G.out = IF DigitSuffixLen(after) > 0
                    THEN CountAtEnd(before, span, after, G.calls)
                  ELSE IF DigitPrefixLen(before) > 0
                    THEN CountAtStart(before, span, after, G.calls)
                  ELSE before \o span \o after \o Pad(G.calls, 3)

\* C27: a reference to a callable without *args and **kwargs is accepted as a
\* field if and only if its number of arguments n is at least the number of
\* parameters without defaults and at most the number of parameters; an
\* accepted one is rendered by the call of the callable with the arguments.
C27_ArgumentCountDecidesAcceptance ==
  (G.status = "built" /\ SingleSpan(G.pattern) /\ RefersToUser(G.pattern)
     /\ ~SpanFunc(G.pattern).varargs /\ ~SpanFunc(G.pattern).keywords)
    => LET field == SpanField(G.pattern)
           func == SpanFunc(G.pattern)
           n == Len(field.args)
       IN /\ Accepted(G.pattern) = (func.nargs - func.ndefaults <= n /\ n <= func.nargs)
          /\ lastCall.op = "generate"
               => /\ lastCall.result = "ok"
                  /\ Contains(G.out, IF Accepted(G.pattern)
                                       THEN FieldFunc(field.name, field.args)
                                       ELSE SpanText(G.pattern))

\* f(a) was given one argument and called with it; the digit ending the
\* pattern is the counter
C27_Witness ==
  /\ Returned /\ G.calls = 2
  /\ G.pattern = <<"x", "[", "f", ",", "1", "]", "1">>
  /\ FieldName \in UserNames
  /\ fieldMaps[1][FieldName] = UserFunc(1, 0, FALSE, FALSE)
  /\ Accepted(G.pattern)
  /\ G.out = <<"x", "<", "f", ":", "1", ">", "2">>

\* the patterns  before [inside] rest  whose first bracket opens a span that
\* holds no bracket; rest is any text
LeadingSpan(p) ==
  LET open == Find(p, "[")
      close == Find(p, "]")
  IN /\ open # -1 /\ close > open
     /\ HasNo(Slice(p, open + 1, close), {"["})

\* C28: a pattern with a closed reference to a callable that takes **kwargs
\* makes the construction fail with an error: no generator is made, and
\* generate() is never called for it.
C28_KeywordsCallableFailsConstruction ==
  (G.status # "none" /\ LeadingSpan(G.pattern) /\ SpanField(G.pattern).name \in UserNames
     /\ SpanFunc(G.pattern).keywords)
    => /\ G.status = "error" /\ G.pattern_parts = <<>>
       /\ G.calls = 0 /\ G.out = <<>>
       /\ lastCall.op = "new" /\ lastCall.result = "ValueError"

C28_Witness ==
  /\ G.status = "error" /\ lastCall.op = "new" /\ lastCall.result = "ValueError"
  /\ G.pattern = <<"x", "[", "f", "]", "y">>
  /\ FieldName \in UserNames /\ fieldMaps[1][FieldName].keywords


-----------------------------------------------------------------------------
(* StringPatternGenerator: two instances. *)

\* the caller holds one dict; each instance is built on it or on None
InitShared ==
  /\ fieldMaps \in {<<fields>> : fields \in {EmptyDict,
                                             DictSet(EmptyDict, FieldName,
                                                     UserFunc(0, 0, FALSE, FALSE))}}
  /\ numGens = <<>>
  /\ spg = [g \in GenIds |-> NoGenerator]
  /\ lastCall = Call("init", 0, 0, "ok", 0)
  /\ setting = NoSetting
  /\ handlerLog = <<>>
  /\ connected = <<>>
  /\ group = <<>>
  /\ stores = <<>>
  /\ persistCalls = 0
  /\ dictHeap = <<>>
  /\ idsSetting = NoIdsSetting

NewShared == \E g \in GenIds, pattern \in SharedPatterns, fields \in {0, 1} :
               New(g, pattern, fields)

GenerateShared == \E g \in GenIds : generate(g)

NextShared == NewShared \/ GenerateShared

SpecShared == InitShared /\ [][NextShared]_vars

\* the string the next generate() call on instance g returns
NextString(g) ==
  GenerateParts(spg[g].pattern_parts, fieldMaps[spg[g].fields], numGens).out

\* C7: counter state belongs to one instance: a generate() call on one instance
\* never changes the string that the next generate() call on another instance
\* returns, whatever patterns and mappings the two were built from (the same
\* mapping object included).
C7_InstancesAreIndependent ==
  [][\A g, h \in GenIds :
       (g # h /\ spg[g].status = "built" /\ spg[h].status = "built"
          /\ lastCall'.op = "generate" /\ lastCall'.target = g)
         => NextString(h)' = NextString(h)]_vars

-----------------------------------------------------------------------------
(* Setting: the operations as functions of the instance s. *)

\* the values passed to a setting
Values == {-5, -1, 0, 1, 2, 100, 200}

\* the bounds given to a numeric setting
MinValues == {0}
MaxValues == {1, 100}

\* event handlers: callables 1 and 2; None is not callable
Handlers == {1, 2}

None == 0

\* the argument tuples bound at connect time
HandlerArgs == {<<>>, <<7>>}

\* a validation whose bounds are exclusive
_validate_exclusive(s, value) ==
  IF s.kind = "int"
    THEN ~(s.has_min /\ value <= s.min_value) /\ ~(s.has_max /\ value >= s.max_value)
    ELSE IF s.kind = "enum" THEN value \in s.option_values
    ELSE TRUE

\* _validate(value): TRUE when no SettingValueError is raised
\* (Setting, BoolSetting: pass; NumericSetting: the bounds that are set;
\* EnumSetting: the option values)
_validate(s, value) ==
  IF s.kind = "int"
    THEN ~(s.has_min /\ value < s.min_value) /\ ~(s.has_max /\ value > s.max_value)
    ELSE IF s.kind = "enum" THEN value \in s.option_values
    ELSE TRUE

\* bool(value), as the integer it equals
Bool(value) == IF value # 0 THEN 1 ELSE 0

_is_value_changed_event_connected(s) == s.handler # None

\* the call of the event handler, which reads s.value: the invocations of this call
CallHandler(s) ==
  IF _is_value_changed_event_connected(s)
    THEN <<[handler |-> s.handler, seen |-> s.value, args |-> s.handler_args]>>
    ELSE <<>>

\* a value property that returns the default value
value_of_default(s) == s.default_value

\* the property Setting.value
GetValue(s) == s.value

\* an assignment that validates and then keeps the old value
_validate_without_assigning(s, value) ==
  IF _validate(s, value)
    THEN [setting |-> s, log |-> CallHandler(s), result |-> "ok"]
    ELSE [setting |-> s, log |-> <<>>, result |-> "SettingValueError"]

\* an assignment that calls the handler before it assigns
_assign_and_notify_early(s, value) ==
  IF _validate(s, value)
    THEN [setting |-> [s EXCEPT !.value = value], log |-> CallHandler(s), result |-> "ok"]
    ELSE [setting |-> s, log |-> <<>>, result |-> "SettingValueError"]

\* an assignment that assigns before it validates
_assign_then_validate(s, value) ==
  IF _validate(s, value)
    THEN [setting |-> [s EXCEPT !.value = value],
          log |-> CallHandler([s EXCEPT !.value = value]), result |-> "ok"]
    ELSE [setting |-> [s EXCEPT !.value = value], log |-> <<>>,
          result |-> "SettingValueError"]

\* _assign_and_validate_value followed by the call of the handler, the common
\* body of Setting.set_value and _apply_gui_value_to_setting
_assign_and_validate_value(s, value) ==
  IF _validate(s, value)
    THEN LET assigned == [s EXCEPT !.value = value]
         IN [setting |-> assigned, log |-> CallHandler(assigned), result |-> "ok"]
    ELSE [setting |-> s, log |-> <<>>, result |-> "SettingValueError"]

\* a set_value that converts the value of every kind of setting
set_value_coercing(s, value) == _assign_and_validate_value(s, Bool(value))

\* set_value(value); BoolSetting.set_value converts the value first
set_value(s, value) ==
  _assign_and_validate_value(s, IF s.kind = "bool" THEN Bool(value) ELSE value)

_apply_gui_value_to_setting(s, value) == _assign_and_validate_value(s, value)

\* a reset that goes through set_value
reset_validating(s) == set_value(s, s.default_value)

reset(s) ==
  LET assigned == [s EXCEPT !.value = s.default_value]
  IN [setting |-> assigned, log |-> CallHandler(assigned), result |-> "ok"]

\* a connect that keeps the handler connected before, when there is one
connect_keeping_first(s, event_handler, event_handler_args) ==
  IF event_handler \notin Handlers
    THEN [setting |-> s, log |-> <<>>, result |-> "TypeError"]
    ELSE IF s.handler # None
      THEN [setting |-> s, log |-> <<>>, result |-> "ok"]
      ELSE [setting |-> [s EXCEPT !.handler = event_handler,
                                  !.handler_args = event_handler_args],
            log |-> <<>>, result |-> "ok"]

connect_value_changed_event(s, event_handler, event_handler_args) ==
  IF event_handler \notin Handlers
    THEN [setting |-> s, log |-> <<>>, result |-> "TypeError"]
    ELSE [setting |-> [s EXCEPT !.handler = event_handler,
                                !.handler_args = event_handler_args],
          log |-> <<>>, result |-> "ok"]

remove_value_changed_event(s) ==
  IF s.handler = None
    THEN [setting |-> s, log |-> <<>>, result |-> "TypeError"]
    ELSE [setting |-> [s EXCEPT !.handler = None, !.handler_args = <<>>],
          log |-> <<>>, result |-> "ok"]

\* a constructor that validates the default value whatever the caller passed
SettingInit_always_validating(kind, default_value, has_min, min_value, has_max, max_value, validate_default_value) ==
  LET s == [status |-> "ok", kind |-> kind, value |-> default_value,
            default_value |-> default_value,
            has_min |-> has_min, min_value |-> min_value,
            has_max |-> has_max, max_value |-> max_value,
            options |-> <<>>, option_values |-> {},
            handler |-> None, handler_args |-> <<>>, ops |-> 0]
  IN IF ~_validate(s, default_value)
       THEN [setting |-> [s EXCEPT !.status = "failed"], log |-> <<>>,
             result |-> "SettingDefaultValueError"]
       ELSE [setting |-> s, log |-> <<>>, result |-> "ok"]

\* Setting.__init__ (NumericSetting.__init__ for kind "int")
SettingInit(kind, default_value, has_min, min_value, has_max, max_value, validate_default_value) ==
  LET s == [status |-> "ok", kind |-> kind, value |-> default_value,
            default_value |-> default_value,
            has_min |-> has_min, min_value |-> min_value,
            has_max |-> has_max, max_value |-> max_value,
            options |-> <<>>, option_values |-> {},
            handler |-> None, handler_args |-> <<>>, ops |-> 0]
  IN IF validate_default_value /\ ~_validate(s, default_value)
       THEN [setting |-> [s EXCEPT !.status = "failed"], log |-> <<>>,
             result |-> "SettingDefaultValueError"]
       ELSE [setting |-> s, log |-> <<>>, result |-> "ok"]

\* the loop of _create_option_attributes from the i-th element (1-based) on;
\* a 2-tuple gets its 0-based position, a 3-tuple its explicit value
RECURSIVE AddOptions(_, _, _)
AddOptions(input_options, i, acc) ==
  IF i > Len(input_options) THEN acc
  ELSE LET elem == input_options[i]
           option_name == elem[1]
           option_value == IF Len(elem) = 2 THEN i - 1 ELSE elem[3]
       IN IF Len(elem) = 3 /\ option_value \in acc.option_values
            THEN [acc EXCEPT !.raised = TRUE]
            ELSE AddOptions(input_options, i + 1,
                            [raised |-> FALSE,
                             options |-> DictSet(acc.options, option_name, option_value),
                             option_values |-> acc.option_values \cup {option_value}])

\* EnumSetting._create_option_attributes: raised stands for ValueError
_create_option_attributes(input_options) ==
  LET empty == [raised |-> FALSE, options |-> <<>>, option_values |-> {}]
  IN IF \A i \in DOMAIN input_options : Len(input_options[i]) = 2
       THEN AddOptions(input_options, 1, empty)
     ELSE IF \A i \in DOMAIN input_options : Len(input_options[i]) = 3
       THEN AddOptions(input_options, 1, empty)
     ELSE [empty EXCEPT !.raised = TRUE]

\* EnumSetting.__init__; default_value is the option name default_value.name
\* when default_value.is_name, and the integer default_value.value otherwise
EnumSettingInit(default_value, input_options, validate_default_value) ==
  LET created == _create_option_attributes(input_options)
      found == default_value.is_name /\ default_value.name \in DOMAIN created.options
      param_default_value == IF found THEN created.options[default_value.name]
                             ELSE default_value.value
      made == SettingInit("enum", param_default_value, FALSE, 0, FALSE, 0, FALSE).setting
      s == [made EXCEPT !.options = created.options,
                        !.option_values = created.option_values]
  IN IF created.raised
       THEN [setting |-> [made EXCEPT !.status = "failed"], log |-> <<>>,
             result |-> "ValueError"]
     ELSE IF ~found /\ validate_default_value
       THEN [setting |-> [s EXCEPT !.status = "failed"], log |-> <<>>,
             result |-> "SettingDefaultValueError"]
     ELSE [setting |-> s, log |-> <<>>, result |-> "ok"]

-----------------------------------------------------------------------------
(* Setting: the state machine. *)

\* the option names, display names and explicit values of the enumerated lists
OptionNames == {"a", "b"}
DisplayName == "A"
OptionValues == {1, 2}

\* the elements of an `options` list: 2-tuples, 3-tuples, and elements of the
\* lengths 1 and 4
OptionTuples ==
  {<<name, DisplayName>> : name \in OptionNames}
    \cup {<<name, DisplayName, v>> : name \in OptionNames, v \in OptionValues}
    \cup {<<"a">>, <<"a", DisplayName, 1, 1>>}

InputOptions == UNION {[1..n -> OptionTuples] : n \in 0..MaxOptions}

\* the default_value arguments: an option name, a name that is no option ("z",
\* or one the list leaves out), or an integer
DefaultArgs ==
  {[is_name |-> TRUE, name |-> name, value |-> 0] : name \in OptionNames \cup {"z"}}
    \cup {[is_name |-> FALSE, name |-> "", value |-> v] : v \in {-1, 1}}

\* a call on the setting that ended as `done`
Apply(op, arg, done) ==
  /\ setting' = [done.setting EXCEPT !.ops = setting.ops + 1]
  /\ handlerLog' = done.log
  /\ lastCall' = Call(op, 0, arg, done.result, setting.value)
  /\ connected' = IF op = "connect" /\ done.result = "ok" THEN Append(connected, arg)
                  ELSE IF op = "remove" /\ done.result = "ok" THEN <<>>
                  ELSE connected
  /\ UNCHANGED <<patternVars, persistVars, imageVars>>

Usable == setting.status = "ok" /\ setting.ops < MaxOps

NewSetting ==
  /\ setting.status = "none"
  /\ \E kind \in {"generic", "int", "bool"}, default_value \in Values,
        has_min \in BOOLEAN, has_max \in BOOLEAN, validate_default_value \in BOOLEAN,
        min_value \in MinValues, max_value \in MaxValues :
       /\ kind # "int" => ~has_min /\ ~has_max
       /\ ~has_min => min_value = 0
       /\ ~has_max => max_value = 1
       /\ LET done == SettingInit(kind, default_value, has_min, min_value,
                                  has_max, IF has_max THEN max_value ELSE 0,
                                  validate_default_value)
          IN /\ setting' = done.setting
             /\ handlerLog' = done.log
             /\ lastCall' = Call("new", 0, default_value, done.result, 0)
                               @@ [validate_default_value |-> validate_default_value]
  /\ UNCHANGED <<patternVars, connected, persistVars, imageVars>>

\* EnumSetting(name, default_value, options, validate_default_value); a name
\* that is no option is passed with validation only, so that values are integers
NewEnumSetting ==
  /\ setting.status = "none"
  /\ \E default_value \in DefaultArgs, input_options \in InputOptions,
        validate_default_value \in BOOLEAN :
       LET done == EnumSettingInit(default_value, input_options, validate_default_value)
       IN /\ (default_value.is_name /\ done.result = "ok")
               => default_value.name \in DOMAIN done.setting.options
          /\ setting' = done.setting
          /\ handlerLog' = done.log
          /\ lastCall' = Call("new", 0, done.setting.default_value, done.result, 0)
                            @@ [default_value |-> default_value,
                                input_options |-> input_options,
                                validate_default_value |-> validate_default_value]
  /\ UNCHANGED <<patternVars, connected, persistVars, imageVars>>

SetValue == Usable /\ \E value \in Values : Apply("set_value", value, set_value(setting, value))

GuiValue ==
  Usable /\ \E value \in Values :
    Apply("gui", value, _apply_gui_value_to_setting(setting, value))

Reset == Usable /\ Apply("reset", 0, reset(setting))

Connect ==
  Usable /\ \E event_handler \in Handlers \cup {None}, args \in HandlerArgs :
    Apply("connect", event_handler,
          connect_value_changed_event(setting, event_handler, args))

Remove == Usable /\ Apply("remove", 0, remove_value_changed_event(setting))

InitSetting ==
  /\ fieldMaps = <<>>
  /\ numGens = <<>>
  /\ spg = [g \in GenIds |-> NoGenerator]
  /\ lastCall = Call("init", 0, 0, "ok", 0)
  /\ setting = NoSetting
  /\ handlerLog = <<>>
  /\ connected = <<>>
  /\ group = <<>>
  /\ stores = <<>>
  /\ persistCalls = 0
  /\ dictHeap = <<>>
  /\ idsSetting = NoIdsSetting

NextSetting == NewSetting \/ NewEnumSetting \/ SetValue \/ GuiValue \/ Reset \/ Connect \/ Remove

SpecSetting == InitSetting /\ [][NextSetting]_vars

-----------------------------------------------------------------------------
(* Setting: properties. *)

\* the invocation of the connected handler, were it called once with the
\* setting holding `seen`; no invocation when none is connected
OneInvocation(s, seen) ==
  IF s.handler # None
    THEN <<[handler |-> s.handler, seen |-> seen, args |-> s.handler_args]>>
    ELSE <<>>

\* C8: a set_value(v) whose v the validation rejects fails with
\* SettingValueError, leaves value as it was and invokes no handler.
C8_RejectedValueChangesNothing ==
  [][(lastCall'.op = "set_value" /\ ~_validate(setting, lastCall'.arg))
       => /\ lastCall'.result = "SettingValueError"
          /\ setting'.value = setting.value
          /\ handlerLog' = <<>>]_vars

C8_Witness ==
  /\ lastCall.op = "set_value" /\ lastCall.result = "SettingValueError"
  /\ setting.handler # None
  /\ setting.value = lastCall.was /\ lastCall.arg # setting.value
  /\ handlerLog = <<>>

\* C9 as stated: a set_value(v) with a valid v makes value equal to v before the
\* handler runs, and invokes the connected handler exactly once, with the
\* setting and the arguments bound at connect time; it invokes nothing when no
\* handler is connected.
C9_ValidValueIsAssignedThenNotified ==
  [][(lastCall'.op = "set_value" /\ _validate(setting, lastCall'.arg))
       => /\ lastCall'.result = "ok"
          /\ setting'.value = lastCall'.arg
          /\ handlerLog' = OneInvocation(setting, lastCall'.arg)]_vars

\* the value a successful set_value(v) stores
Stored(s, v) == IF s.kind = "bool" THEN Bool(v) ELSE v

\* C9 as amended: the value assigned is v, and bool(v) for a BoolSetting; it is
\* assigned before the handler runs, and the connected handler is invoked
\* exactly once, with the setting and the arguments bound at connect time;
\* nothing is invoked when no handler is connected.
C9_StoredValueIsAssignedThenNotified ==
  [][(lastCall'.op = "set_value" /\ _validate(setting, Stored(setting, lastCall'.arg)))
       => /\ lastCall'.result = "ok"
          /\ setting'.value = Stored(setting, lastCall'.arg)
          /\ handlerLog' = OneInvocation(setting, Stored(setting, lastCall'.arg))]_vars

C9_Witness ==
  /\ lastCall.op = "set_value" /\ lastCall.result = "ok"
  /\ setting.kind = "bool" /\ lastCall.arg = 2 /\ lastCall.was = 0
  /\ setting.value = 1
  /\ handlerLog = <<[handler |-> 2, seen |-> 1, args |-> <<7>>]>>

\* C10: reset() assigns default_value to value without validating it, so it
\* succeeds with a default that set_value rejects, and invokes the connected
\* handler once; after a set_value(x), reset() leaves value = default_value.
C10_ResetAssignsDefaultUnvalidated ==
  [][lastCall'.op = "reset"
       => /\ lastCall'.result = "ok"
          /\ setting'.value = setting.default_value
          /\ setting'.default_value = setting.default_value
          /\ handlerLog' = OneInvocation(setting, setting.default_value)]_vars

C10_Witness ==
  /\ lastCall.op = "reset" /\ lastCall.result = "ok"
  /\ ~_validate(setting, setting.default_value)
  /\ lastCall.was # setting.default_value
  /\ setting.value = setting.default_value
  /\ Len(handlerLog) = 1 /\ handlerLog[1].seen = setting.default_value

\* the handlers a call invoked, in order
Invoked(log) == [i \in DOMAIN log |-> log[i].handler]

\* C11: a setting holds at most one handler: a connect replaces the handler
\* connected before, so a later set_value or reset invokes only the last one
\* connected; remove_value_changed_event fails with TypeError when no handler
\* is connected, and after a remove that succeeded nothing is invoked until a
\* handler is connected again.
C11_AtMostOneHandler ==
  [][/\ (lastCall'.op \in {"set_value", "reset"} /\ lastCall'.result = "ok")
          => Invoked(handlerLog') = IF connected = <<>> THEN <<>>
                                     ELSE <<connected[Len(connected)]>>
     /\ (lastCall'.op \in {"set_value", "reset"} /\ lastCall'.result # "ok")
          => handlerLog' = <<>>
     /\ lastCall'.op = "remove"
          => (lastCall'.result = "TypeError") = (connected = <<>>)]_vars

\* a second handler was connected over the first, and a call invoked it alone
C11_Witness ==
  /\ lastCall.op \in {"set_value", "reset"} /\ lastCall.result = "ok"
  /\ connected = <<2, 1>> /\ setting.handler_args = <<>>
  /\ Invoked(handlerLog) = <<1>>

\* C12: set_value(v) on a numeric setting succeeds if and only if v is not
\* below a min_value that is set and not above a max_value that is set; the
\* bounds themselves are accepted, and a rejected v raises SettingValueError.
C12_NumericBoundsAreInclusive ==
  [][(lastCall'.op = "set_value" /\ setting.kind = "int")
       => /\ (lastCall'.result = "ok")
               = /\ (~setting.has_min \/ lastCall'.arg >= setting.min_value)
                 /\ (~setting.has_max \/ lastCall'.arg <= setting.max_value)
          /\ lastCall'.result \in {"ok", "SettingValueError"}
          /\ (setting.has_min /\ setting.min_value = 0
                /\ setting.has_max /\ setting.max_value = 100)
               => /\ lastCall'.arg \in {0, 100} => lastCall'.result = "ok"
                  /\ lastCall'.arg \in {-5, 200}
                       => lastCall'.result = "SettingValueError"]_vars

\* the upper bound 100 of a setting with bounds 0 and 100 was accepted
C12_Witness ==
  /\ lastCall.op = "set_value" /\ lastCall.result = "ok"
  /\ setting.kind = "int" /\ setting.has_min /\ setting.has_max
  /\ setting.min_value = 0 /\ setting.max_value = 100
  /\ lastCall.arg = 100 /\ setting.value = 100 /\ lastCall.was = 0

\* the construction of an EnumSetting that just ended, and its `options` list
EnumMade == lastCall.op = "new" /\ setting.kind = "enum"

AllOfLength(input_options, n) ==
  \A i \in DOMAIN input_options : Len(input_options[i]) = n

SharesValue(input_options) ==
  \E i, j \in DOMAIN input_options : i # j /\ input_options[i][3] = input_options[j][3]

\* C13: a list of 2-tuples gives its i-th option (0-based) the value i; a list
\* of 3-tuples gives each option its explicit value, and fails with ValueError
\* when two options share a value; a list that mixes the two, or holds an
\* element of another length, fails with ValueError.
C13_OptionValuesAssigned ==
  EnumMade =>
    LET input_options == lastCall.input_options
    IN IF AllOfLength(input_options, 2)
         THEN /\ lastCall.result # "ValueError"
              /\ lastCall.result = "ok"
                   => \A i \in DOMAIN input_options :
                        setting.options[input_options[i][1]] = i - 1
       ELSE IF AllOfLength(input_options, 3)
         THEN IF SharesValue(input_options)
                THEN lastCall.result = "ValueError"
                ELSE /\ lastCall.result # "ValueError"
                     /\ lastCall.result = "ok"
                          => \A i \in DOMAIN input_options :
                               setting.options[input_options[i][1]] = input_options[i][3]
       ELSE lastCall.result = "ValueError"

\* the values of the options in the `options` mapping (name -> value)
ValuesOf(options) == {options[name] : name \in DOMAIN options}

\* C14: set_value(v) on an EnumSetting succeeds if and only if v is the value
\* of an option in the `options` mapping; any other v fails with
\* SettingValueError and leaves value unchanged.
C14_OnlyOptionValuesAccepted ==
  [][(lastCall'.op = "set_value" /\ setting.kind = "enum")
       => /\ (lastCall'.result = "ok") = (lastCall'.arg \in ValuesOf(setting.options))
          /\ lastCall'.result # "ok"
               => /\ lastCall'.result = "SettingValueError"
                  /\ setting'.value = setting.value]_vars

\* the default value of the construction that just ended fails validation: for
\* an EnumSetting it is not the name of an option of the list, for the other
\* settings _validate rejects it
DefaultIsInvalid ==
  IF setting.kind = "enum"
    THEN ~(/\ lastCall.default_value.is_name
           /\ \E i \in DOMAIN lastCall.input_options :
                lastCall.input_options[i][1] = lastCall.default_value.name)
    ELSE ~_validate(setting, lastCall.arg)

\* C15 as stated: a construction whose default value fails validation raises
\* SettingDefaultValueError, unless validate_default_value = False was passed,
\* and then it succeeds; a construction that succeeds leaves value equal to
\* default_value.
C15_AnyInvalidDefaultIsRejected ==
  lastCall.op = "new"
    => /\ (DefaultIsInvalid /\ lastCall.validate_default_value)
            => lastCall.result = "SettingDefaultValueError" /\ setting.status = "failed"
       /\ (DefaultIsInvalid /\ ~lastCall.validate_default_value)
            => lastCall.result = "ok" /\ setting.status = "ok"
       /\ lastCall.result = "ok" => setting.value = setting.default_value

\* C15 as amended: the same of every construction but that of an EnumSetting
\* whose `options` list is not accepted, which raises ValueError before the
\* default value is looked at.
C15_InvalidDefaultIsRejected ==
  (lastCall.op = "new" /\ lastCall.result # "ValueError")
    => /\ (DefaultIsInvalid /\ lastCall.validate_default_value)
            => lastCall.result = "SettingDefaultValueError" /\ setting.status = "failed"
       /\ (DefaultIsInvalid /\ ~lastCall.validate_default_value)
            => lastCall.result = "ok" /\ setting.status = "ok"
       /\ lastCall.result = "ok" => setting.value = setting.default_value

\* an EnumSetting was made with a default that is no option name, unvalidated
C15_Witness ==
  /\ lastCall.op = "new" /\ lastCall.result = "ok"
  /\ setting.kind = "enum" /\ DefaultIsInvalid /\ ~lastCall.validate_default_value
  /\ Len(lastCall.input_options) = 2
  /\ setting.value = -1 /\ setting.default_value = -1

\* C29: after any sequence of set_value, reset and GUI updates, failed ones
\* included, value is default_value or a value that the validation of the
\* setting accepts; a failed set_value or GUI update leaves value as it was and
\* calls no handler, and a handler that is called sees the value assigned.
C29_ValueIsDefaultOrValidated ==
  [][/\ setting'.status = "ok"
          => \/ setting'.value = setting'.default_value
             \/ _validate(setting', setting'.value)
     /\ (lastCall'.op \in {"set_value", "gui"} /\ lastCall'.result # "ok")
          => /\ ~_validate(setting, IF lastCall'.op = "set_value"
                                         THEN Stored(setting, lastCall'.arg)
                                         ELSE lastCall'.arg)
             /\ setting'.value = setting.value
             /\ handlerLog' = <<>>
     /\ \A i \in DOMAIN handlerLog' : handlerLog'[i].seen = setting'.value]_vars

\* a GUI update was rejected after a set_value had succeeded: the handler was
\* not called and the value set before is still there
C29_Witness ==
  /\ lastCall.op = "gui" /\ lastCall.result = "SettingValueError"
  /\ setting.handler # None /\ handlerLog = <<>>
  /\ ~_validate(setting, lastCall.arg)
  /\ setting.value = lastCall.was /\ setting.value # setting.default_value
  /\ _validate(setting, setting.value)

-----------------------------------------------------------------------------
(* SettingPersistor and the setting stores. *)

\* the statuses of SettingPersistor
SUCCESS == "SUCCESS"
READ_FAIL == "READ_FAIL"
WRITE_FAIL == "WRITE_FAIL"
NOT_ALL_SETTINGS_FOUND == "NOT_ALL_SETTINGS_FOUND"

\* the settings of the groups, by name, and the groups given to SettingPersistor
SettingNames == {"X", "Y"}
Groups == <<{"X"}, {"Y"}>>

\* every setting across all groups
_list_settings(setting_groups) == UNION {setting_groups[i] : i \in DOMAIN setting_groups}

\* the values a store may hold for a setting; -1 is below the minimum 0 of X
StoredValues == [X |-> {-1, 1, 2}, Y |-> {1}]

\* a store: the name -> value pairs it holds, and whether its medium fails
\* (reading and writing then raise an I/O failure)
Store(data, fails) == [data |-> data, fails |-> fails]

\* a value read from a store is assigned with set_value; when the validation
\* rejects it the setting is reset to its default value
Loaded(s, value) ==
  LET done == set_value(s, value)
  IN IF done.result = "SettingValueError" THEN reset(s).setting ELSE done.setting

\* store.read(settings): the requested settings the store holds are loaded, the
\* others are reported as not found; raised stands for the I/O failure
StoreRead(store, settings, requested) ==
  IF store.fails
    THEN [raised |-> TRUE, settings |-> settings, not_found |-> requested]
    ELSE [raised |-> FALSE,
          settings |-> [name \in DOMAIN settings |->
                          IF name \in requested /\ name \in DOMAIN store.data
                            THEN Loaded(settings[name], store.data[name])
                            ELSE settings[name]],
          not_found |-> requested \ DOMAIN store.data]

\* store.write(settings): the store then holds the value of every setting written
StoreWrite(store, settings, names) ==
  IF store.fails
    THEN [raised |-> TRUE, store |-> store]
    ELSE [raised |-> FALSE,
          store |-> [store EXCEPT !.data =
                       [name \in DOMAIN store.data \cup names |->
                          IF name \in names THEN GetValue(settings[name])
                          ELSE store.data[name]]]]

\* SettingPersistor.load from the i-th store on: each store is asked for the
\* settings not found so far.  Whether a store is still read once nothing
\* remains to be found is left open (stop_when_found).
RECURSIVE LoadFrom(_, _, _, _, _, _)
LoadFrom(i, settings, setting_streams, remaining, read, stop_when_found) ==
  IF i > Len(setting_streams) \/ (stop_when_found /\ remaining = {})
    THEN [status |-> IF remaining = {} THEN SUCCESS ELSE NOT_ALL_SETTINGS_FOUND,
          settings |-> settings, not_found |-> remaining, read |-> read]
    ELSE LET done == StoreRead(setting_streams[i], settings, remaining)
         IN IF done.raised
              THEN [status |-> READ_FAIL, settings |-> settings,
                    not_found |-> remaining, read |-> Append(read, i)]
              ELSE LoadFrom(i + 1, done.settings, setting_streams, done.not_found,
                            Append(read, i), stop_when_found)

\* SettingPersistor.load(setting_groups, setting_streams)
load(settings, setting_groups, setting_streams, stop_when_found) ==
  LoadFrom(1, settings, setting_streams, _list_settings(setting_groups), <<>>,
           stop_when_found)

\* SettingPersistor.save from the i-th store on
RECURSIVE SaveFrom(_, _, _, _, _)
SaveFrom(i, settings, names, setting_streams, written) ==
  IF i > Len(setting_streams)
    THEN [status |-> SUCCESS, stores |-> setting_streams, written |-> written]
    ELSE LET done == StoreWrite(setting_streams[i], settings, names)
         IN IF done.raised
              THEN [status |-> WRITE_FAIL, stores |-> setting_streams,
                    written |-> written]
              ELSE SaveFrom(i + 1, settings, names,
                            [setting_streams EXCEPT ![i] = done.store],
                            Append(written, i))

\* SettingPersistor.save(setting_groups, setting_streams)
save(settings, setting_groups, setting_streams) ==
  SaveFrom(1, settings, _list_settings(setting_groups), setting_streams, <<>>)

\* the stores of the list, in list order
StoreIds == {1, 2, 3}

\* what a store may hold: some of the settings, each with one of its values
StoreData ==
  UNION {{data \in [names -> UNION {StoredValues[n] : n \in SettingNames}] :
            \A n \in names : data[n] \in StoredValues[n]} : names \in SUBSET SettingNames}

\* X is an IntSetting with min_value 0 whose default is 0, or -1 unvalidated;
\* Y is an IntSetting without bounds
InitPersist ==
  /\ fieldMaps = <<>>
  /\ numGens = <<>>
  /\ spg = [g \in GenIds |-> NoGenerator]
  /\ lastCall = Call("init", 0, 0, "ok", 0)
  /\ setting = NoSetting
  /\ handlerLog = <<>>
  /\ connected = <<>>
  /\ \E default_value \in {-1, 0} :
       group = [name \in SettingNames |->
                  IF name = "X"
                    THEN SettingInit("int", default_value, TRUE, 0, FALSE, 0, FALSE).setting
                    ELSE SettingInit("int", 0, FALSE, 0, FALSE, 0, TRUE).setting]
  /\ stores \in [StoreIds -> {Store(data, fails) : data \in StoreData, fails \in BOOLEAN}]
  /\ persistCalls = 0
  /\ dictHeap = <<>>
  /\ idsSetting = NoIdsSetting

\* status, unused = SettingPersistor.load(Groups, stores)
Load ==
  /\ persistCalls < MaxPersistCalls
  /\ \E stop_when_found \in BOOLEAN :
       LET done == load(group, Groups, stores, stop_when_found)
       IN /\ group' = done.settings
          /\ lastCall' = Call("load", 0, 0, done.status, 0)
                           @@ [not_found |-> done.not_found, read |-> done.read,
                               group_before |-> group]
  /\ persistCalls' = persistCalls + 1
  /\ UNCHANGED <<patternVars, settingVars, stores, imageVars>>

\* status, unused = SettingPersistor.save(Groups, stores)
Save ==
  /\ persistCalls < MaxPersistCalls
  /\ LET done == save(group, Groups, stores)
     IN /\ stores' = done.stores
        /\ lastCall' = Call("save", 0, 0, done.status, 0)
                         @@ [written |-> done.written, stores_before |-> stores]
  /\ persistCalls' = persistCalls + 1
  /\ UNCHANGED <<patternVars, settingVars, group, imageVars>>

\* group[name].set_value(2), between the calls of SettingPersistor
SetGroupValue ==
  /\ persistCalls < MaxPersistCalls
  /\ \E name \in SettingNames :
       LET done == set_value(group[name], 2)
       IN /\ group[name].value # 2
          /\ group' = [group EXCEPT ![name] = done.setting]
          /\ lastCall' = Call("set_value", 0, 2, done.result, GetValue(group[name]))
  /\ UNCHANGED <<patternVars, settingVars, stores, persistCalls, imageVars>>

NextPersist == Load \/ Save \/ SetGroupValue

SpecPersist == InitPersist /\ [][NextPersist]_vars

\* the stores of the list that hold the setting `name`, and the first of them
Holders(name) == {i \in StoreIds : name \in DOMAIN stores[i].data}

FirstHolder(name) == CHOOSE i \in Holders(name) : \A j \in Holders(name) : i <= j

\* the load that just ended read every store it asked without an I/O failure
LoadedWithoutFailure == lastCall.op = "load" /\ lastCall.result # READ_FAIL

\* C16: load gives each requested setting the value held by the first store,
\* in list order, that has the setting; a value of the same setting held by a
\* later store never overrides it.
C16_FirstStoreWins ==
  LoadedWithoutFailure =>
    \A name \in SettingNames :
      (Holders(name) # {}
         /\ _validate(group[name], stores[FirstHolder(name)].data[name]))
        => group[name].value = stores[FirstHolder(name)].data[name]

\* the first store holds X, the second holds another X and Y
C16_Witness ==
  /\ LoadedWithoutFailure
  /\ stores[1].data = [name \in {"X"} |-> 1]
  /\ stores[2].data = [X |-> 2, Y |-> 1]
  /\ lastCall.group_before["X"].value = 0 /\ lastCall.group_before["Y"].value = 0
  /\ group["X"].value = 1 /\ group["Y"].value = 1

\* the stores whose read raised an I/O failure during the load that just ended
RaisedOnRead == {i \in StoreIds : (\E k \in DOMAIN lastCall.read : lastCall.read[k] = i)
                                    /\ stores[i].fails}

\* the requested settings that no store of the list holds
FoundNowhere == {name \in SettingNames : Holders(name) = {}}

Failing == {i \in StoreIds : stores[i].fails}

FirstFailing ==
  IF Failing = {} THEN Cardinality(StoreIds) + 1
  ELSE CHOOSE i \in Failing : \A j \in Failing : i <= j

\* C18: save writes every setting of every group to the stores in list order
\* and stops at the first store whose write fails: it then returns WRITE_FAIL
\* and no store after the failing one is written; when no write fails it
\* returns SUCCESS after writing all stores.
C18_SaveStopsAtFirstFailure ==
  [][lastCall'.op = "save"
       => /\ lastCall'.result = IF Failing = {} THEN SUCCESS ELSE WRITE_FAIL
          /\ lastCall'.written = [k \in 1..(FirstFailing - 1) |-> k]
          /\ \A i \in StoreIds :
               IF i < FirstFailing
                 THEN \A name \in SettingNames :
                        /\ name \in DOMAIN stores'[i].data
                        /\ stores'[i].data[name] = group[name].value
                 ELSE stores'[i] = stores[i]]_vars

\* the first store was written, the second failed, the third was left as it was
C18_Witness ==
  /\ lastCall.op = "save" /\ lastCall.result = WRITE_FAIL
  /\ lastCall.written = <<1>> /\ stores[2].fails /\ ~stores[3].fails
  /\ group["X"].value = 2 /\ group["Y"].value = 2
  /\ lastCall.stores_before[1].data = <<>>
  /\ stores[1].data = [X |-> 2, Y |-> 2]
  /\ stores[3].data = [name \in {"X"} |-> 1]

\* C19 as stated: save is all-or-nothing: when it returns WRITE_FAIL every
\* store of the list holds what it held before the call.
C19_SaveIsAllOrNothing ==
  [][(lastCall'.op = "save" /\ lastCall'.result = WRITE_FAIL)
       => stores' = stores]_vars

\* C19 as amended: when save returns WRITE_FAIL, the store whose write failed
\* and the stores after it hold what they held before the call, and each store
\* before it holds the values this call wrote.
C19_FailedSaveKeepsEarlierWrites ==
  [][(lastCall'.op = "save" /\ lastCall'.result = WRITE_FAIL)
       => /\ Failing # {}
          /\ \A i \in StoreIds :
               stores'[i] = IF i < FirstFailing
                              THEN Store([name \in SettingNames |-> group[name].value],
                                         FALSE)
                              ELSE stores[i]]_vars

\* the third store failed after the first two were written with new values
C19_Witness ==
  /\ lastCall.op = "save" /\ lastCall.result = WRITE_FAIL
  /\ lastCall.written = <<1, 2>> /\ stores[3].fails
  /\ stores[1] # lastCall.stores_before[1]
  /\ stores[2] # lastCall.stores_before[2]
  /\ stores[3] = lastCall.stores_before[3]
  /\ group["X"].value # group["X"].default_value

\* the load that just ended read the first store that holds `name`
FoundOnLoad(name) ==
  /\ Holders(name) # {}
  /\ ~stores[FirstHolder(name)].fails
  /\ \E k \in DOMAIN lastCall.read : lastCall.read[k] = FirstHolder(name)

\* the value the load that just ended read for `name`
ValueRead(name) == stores[FirstHolder(name)].data[name]

\* C20: a value read from a store that fails the validation of its setting
\* raises nothing and leaves the status of the load what the stores alone make
\* it; the setting then holds its default value, and the other settings read
\* by the same call hold the values loaded.
C20_InvalidStoredValueResets ==
  lastCall.op = "load" =>
    \A name \in SettingNames :
      (FoundOnLoad(name) /\ ~_validate(group[name], ValueRead(name)))
        => /\ group[name].value = group[name].default_value
           /\ lastCall.result =
                IF RaisedOnRead # {} THEN READ_FAIL
                ELSE IF FoundNowhere # {} THEN NOT_ALL_SETTINGS_FOUND
                ELSE SUCCESS
           /\ \A other \in SettingNames \ {name} :
                (FoundOnLoad(other) /\ _validate(group[other], ValueRead(other)))
                  => group[other].value = ValueRead(other)

\* X held 2 and was read as -1, which is below its minimum: X is back at its
\* default value -1, Y holds the value loaded, and the load succeeded
C20_Witness ==
  /\ lastCall.op = "load" /\ lastCall.result = SUCCESS
  /\ FoundOnLoad("X") /\ ValueRead("X") = -1
  /\ lastCall.group_before["X"].value = 2
  /\ group["X"].default_value = -1 /\ group["X"].value = -1
  /\ FoundOnLoad("Y") /\ lastCall.group_before["Y"].value = 0
  /\ group["Y"].value = 1

-----------------------------------------------------------------------------
(* uniquify_string and the string validators: each call is made once, on    *)
(* arguments drawn from the sets below, and recorded in lastCall.           *)

\* the normalised index of s[:i] and s[i:]: a negative i counts from the end
\* and an i past either end is clipped
PyIndex(s, i) == IF i < 0 THEN Max(Len(s) + i, 0) ELSE Min(i, Len(s))

\* an integer uniquifier_position; None is the record whose is_none is TRUE
Position(i) == [is_none |-> FALSE, index |-> i]

\* a uniquifier_generator that yields the strings of `items` and then ends;
\* None is the record whose is_none is TRUE
Generator(items) == [is_none |-> FALSE, items |-> items]

\* a generator whose numbers start at 0
_generate_unique_number_from_zero(k) == <<" ", "(">> \o StrOf(k - 1) \o <<")">>

\* the k-th string (k = 1, 2, ...) of _generate_unique_number: " (k)"
_generate_unique_number(k) == <<" ", "(">> \o StrOf(k) \o <<")">>

\* _get_uniquified_string with the k-th uniquifier; uniquifier_position is the
\* integer position
_get_uniquified_string(str_, uniquifier_position, uniquifier) ==
  LET at == PyIndex(str_, uniquifier_position)
  IN SubSeq(str_, 1, at) \o uniquifier \o SubSeq(str_, at + 1, Len(str_))

\* the is_unique_func of uniquify_string
IsUnique(existing_strings, str_param) == str_param \notin existing_strings

\* lines 141-145 of uniquify_string_generic from the k-th call of
\* next(uniquifier_generator) on; the call raises StopIteration when a
\* generator of the caller has ended
RECURSIVE UniquifyFrom(_, _, _, _, _)
UniquifyFrom(str_, existing_strings, uniquifier_position, uniquifier_generator, k) ==
  IF ~uniquifier_generator.is_none /\ k > Len(uniquifier_generator.items)
    THEN [result |-> "StopIteration", returned |-> <<>>]
    ELSE LET uniquifier == IF uniquifier_generator.is_none
                             THEN _generate_unique_number(k)
                             ELSE uniquifier_generator.items[k]
             uniq_str == _get_uniquified_string(str_, uniquifier_position, uniquifier)
         IN IF IsUnique(existing_strings, uniq_str)
              THEN [result |-> "ok", returned |-> uniq_str]
              ELSE UniquifyFrom(str_, existing_strings, uniquifier_position,
                                uniquifier_generator, k + 1)

\* uniquify_string_generic with is_unique_func = IsUnique(existing_strings, _)
uniquify_string_generic(str_, existing_strings, uniquifier_position, uniquifier_generator) ==
  IF IsUnique(existing_strings, str_)
    THEN [result |-> "ok", returned |-> str_]
    ELSE UniquifyFrom(str_, existing_strings,
                      IF uniquifier_position.is_none THEN Len(str_)
                      ELSE uniquifier_position.index,
                      uniquifier_generator, 1)

uniquify_string(str_, existing_strings, uniquifier_position, uniquifier_generator) ==
  uniquify_string_generic(str_, existing_strings, uniquifier_position, uniquifier_generator)

\* the strings to uniquify, the positions and the generators passed
UniquifyStrings == {<<>>, <<"a">>, <<"a", "b">>}

UniquifierPositions == {[is_none |-> TRUE, index |-> 0]} \cup {Position(i) : i \in {-1, 0, 1, 2, 5}}

UniquifierGenerators ==
  {[is_none |-> TRUE, items |-> <<>>], Generator(<<>>), Generator(<<<<"x">>>>),
   Generator(<<<<>>, <<"x">>>>), Generator(<<<<" ", "(", "2", ")">>, <<"x">>>>)}

\* the strings an existing_strings list is made of: str_ itself, str_ with one
\* of the first uniquifiers at the position, at its end and at its start
ExistingPool(str_, uniquifier_position) ==
  LET at == IF uniquifier_position.is_none THEN Len(str_) ELSE uniquifier_position.index
  IN {str_, str_ \o _generate_unique_number(1), _generate_unique_number(1) \o str_}
       \cup {_get_uniquified_string(str_, at, u) :
               u \in {_generate_unique_number(1), _generate_unique_number(2),
                      _generate_unique_number(3), <<"x">>}}

Uniquify ==
  /\ lastCall.op = "init"
  /\ \E str_ \in UniquifyStrings, uniquifier_position \in UniquifierPositions,
        uniquifier_generator \in UniquifierGenerators :
       \E existing_strings \in SUBSET ExistingPool(str_, uniquifier_position) :
         LET done == uniquify_string(str_, existing_strings, uniquifier_position,
                                     uniquifier_generator)
         IN lastCall' = Call("uniquify_string", 0, 0, done.result, 0)
                          @@ [str_ |-> str_, existing_strings |-> existing_strings,
                              uniquifier_position |-> uniquifier_position,
                              uniquifier_generator |-> uniquifier_generator,
                              returned |-> done.returned]
  /\ UNCHANGED <<patternVars, settingVars, persistVars, imageVars>>


\* C21: uniquify_string(s, existing) returns s when s is not in existing;
\* otherwise s with a uniquifier inserted at uniquifier_position (appended when
\* the position is None), the first one of the generator (" (1)", " (2)", ...
\* by default) that gives a string not in existing; the string returned is
\* never in existing, and with the default generator one is always returned.
C21_UniquifiedStringIsUnique ==
  lastCall.op = "uniquify_string" =>
    LET s == lastCall.str_
        existing == lastCall.existing_strings
        generator == lastCall.uniquifier_generator
        at == IF lastCall.uniquifier_position.is_none THEN Len(s)
              ELSE lastCall.uniquifier_position.index
        Inserted(k) ==
          LET u == IF generator.is_none THEN <<" ", "(">> \o StrOf(k) \o <<")">>
                   ELSE generator.items[k]
          IN SubSeq(s, 1, at) \o u \o SubSeq(s, at + 1, Len(s))
        last == IF generator.is_none THEN Cardinality(existing) + 1
                ELSE Len(generator.items)
    IN /\ s \notin existing => lastCall.result = "ok" /\ lastCall.returned = s
       /\ lastCall.result = "ok" => lastCall.returned \notin existing
       /\ generator.is_none => lastCall.result = "ok"
       /\ (s \in existing /\ lastCall.result = "ok" /\ at \in 0..Len(s))
            => \E k \in 1..last :
                 /\ lastCall.returned = Inserted(k)
                 /\ \A j \in 1..(k - 1) : Inserted(j) \in existing

\* "ab" with "ab" and "a (1)b" taken: " (2)" is inserted at position 1
C21_Witness ==
  /\ lastCall.op = "uniquify_string" /\ lastCall.result = "ok"
  /\ lastCall.str_ = <<"a", "b">>
  /\ lastCall.uniquifier_position = Position(1)
  /\ lastCall.uniquifier_generator.is_none
  /\ lastCall.existing_strings =
       {<<"a", "b">>, <<"a", " ", "(", "1", ")", "b">>, <<"a", "b", " ", "(", "1", ")">>}
  /\ lastCall.returned = <<"a", " ", "(", "2", ")", "b">>


-----------------------------------------------------------------------------
(* FilenameValidator. *)

\* s.upper()
Upper(s) ==
  LET LowerCase ==
        <<"a", "b", "c", "d", "e", "f", "g", "h", "i", "j", "k", "l", "m",
          "n", "o", "p", "q", "r", "s", "t", "u", "v", "w", "x", "y", "z">>
      UpperCase ==
        <<"A", "B", "C", "D", "E", "F", "G", "H", "I", "J", "K", "L", "M",
          "N", "O", "P", "Q", "R", "S", "T", "U", "V", "W", "X", "Y", "Z">>
  IN [i \in DOMAIN s |->
        IF \E k \in 1..26 : LowerCase[k] = s[i]
          THEN UpperCase[CHOOSE k \in 1..26 : LowerCase[k] = s[i]]
          ELSE s[i]]

\* os.path.splitext(p) of posixpath: the extension starts at the last period
\* after the last "/", unless only periods come before it
splitext(p) ==
  LET RFind(c) ==
        IF \E i \in 1..Len(p) : p[i] = c
          THEN (CHOOSE i \in 1..Len(p) : p[i] = c /\ \A j \in (i + 1)..Len(p) : p[j] # c) - 1
          ELSE -1
      sepIndex == RFind("/")
      dotIndex == RFind(".")
  IN IF dotIndex > sepIndex /\ \E i \in (sepIndex + 1)..(dotIndex - 1) : p[i + 1] # "."
       THEN [root |-> Slice(p, 0, dotIndex), ext |-> SliceFrom(p, dotIndex)]
       ELSE [root |-> p, ext |-> <<>>]

\* a filter that keeps the elements of s whose character is not in chars
RECURSIVE RemoveChars(_, _)
RemoveChars(s, chars) ==
  IF s = <<>> THEN <<>>
  ELSE IF Head(s) \in chars THEN RemoveChars(Tail(s), chars)
  ELSE <<Head(s)>> \o RemoveChars(Tail(s), chars)

\* s.lstrip(chars) and s.rstrip(chars)
RECURSIVE LStripChars(_, _)
LStripChars(s, chars) ==
  IF s # <<>> /\ Head(s) \in chars THEN LStripChars(Tail(s), chars) ELSE s

RECURSIVE RStripChars(_, _)
RStripChars(s, chars) ==
  IF s # <<>> /\ s[Len(s)] \in chars
    THEN RStripChars(SubSeq(s, 1, Len(s) - 1), chars)
    ELSE s

\* the control characters a string of the model can hold (of the ordinals 0-31
\* and 127-159) and the special characters of _INVALID_CHARS_PATTERN
ControlChars == {NL, "\t"}

SpecialChars == {"<", ">", ":", "\"", "\\", "/", "|", "?", "*"}

_INVALID_CHARS_PATTERN == ControlChars \cup SpecialChars

_INVALID_NAMES ==
  {<<"C", "O", "N">>, <<"P", "R", "N">>, <<"A", "U", "X">>, <<"N", "U", "L">>}
    \cup {<<"C", "O", "M", DigitSeq[d + 1]>> : d \in 1..9}
    \cup {<<"L", "P", "T", DigitSeq[d + 1]>> : d \in 1..9}

\* FileValidatorErrorStatuses
IS_EMPTY == "IS_EMPTY"
HAS_INVALID_CHARS == "HAS_INVALID_CHARS"
HAS_TRAILING_SPACES == "HAS_TRAILING_SPACES"
HAS_TRAILING_PERIOD == "HAS_TRAILING_PERIOD"
HAS_INVALID_NAMES == "HAS_INVALID_NAMES"

\* `[status] if condition else []`
StatusIf(condition, status) == IF condition THEN <<status>> ELSE <<>>

\* FilenameValidator.is_valid(filename)
FilenameValidator_is_valid(filename) ==
  IF filename = <<>>
    THEN [is_valid |-> FALSE, status_messages |-> <<IS_EMPTY>>]
    ELSE LET status_messages ==
               StatusIf(\E i \in 1..Len(filename) : filename[i] \in _INVALID_CHARS_PATTERN,
                        HAS_INVALID_CHARS)
                 \o StatusIf(filename[Len(filename)] = " ", HAS_TRAILING_SPACES)
                 \o StatusIf(filename[Len(filename)] = ".", HAS_TRAILING_PERIOD)
                 \o StatusIf(Upper(splitext(filename).root) \in _INVALID_NAMES,
                             HAS_INVALID_NAMES)
         IN [is_valid |-> status_messages = <<>>, status_messages |-> status_messages]

\* FilenameValidator.validate(filename)
FilenameValidator_validate(filename) ==
  LET stripped == RStripChars(LStripChars(RemoveChars(filename, _INVALID_CHARS_PATTERN),
                                          {" "}), {" "})
      cut == RStripChars(stripped, {"."})
      parts == splitext(cut)
      renamed == IF Upper(parts.root) \in _INVALID_NAMES
                   THEN parts.root \o <<" ", "(", "1", ")">> \o parts.ext
                   ELSE cut
  IN IF renamed = <<>> THEN <<"U", "n", "t", "i", "t", "l", "e", "d">> ELSE renamed

\* the filenames passed to the validator
FilenameChars == {"a", "n", "u", "l", "N", " ", ".", ":", NL}

ExampleFilenames ==
  { <<"a", " ", ".">>, <<"a", " ", ".", " ", ".">>, <<" ", "a">>,
    <<"C", "O", "N">>, <<"c", "o", "n", ".", "t", "x", "t">>,
    <<"N", "U", "L", ".", "t", "a", "r", ".", "g", "z">>,
    <<"C", "O", "M", "1", " ">>, <<"L", "P", "T", "9", ".">>,
    <<"C", "O", "M", "0">>, <<"a", "\t", "b">>, <<"a", "/", "n", "u", "l">>,
    <<"n", "u", "l", "/", "a", ".", "b">>, <<"a", "\\", "b", "?">>,
    <<".", "C", "O", "N">>, <<"C", "O", "N", " ", ".", "t", "x", "t">>,
    <<"a", "u", "x", ".", ".">>, <<"p", ":", "r", "n">> }

MaxFilenameLen == 3

Filenames == (UNION {[1..n -> FilenameChars] : n \in 0..MaxFilenameLen}) \cup ExampleFilenames

IsValid ==
  /\ lastCall.op = "init"
  /\ \E filename \in Filenames :
       LET done == FilenameValidator_is_valid(filename)
       IN lastCall' = Call("is_valid", 0, 0, "ok", 0)
                        @@ [filename |-> filename, is_valid |-> done.is_valid,
                            status_messages |-> done.status_messages]
  /\ UNCHANGED <<patternVars, settingVars, persistVars, imageVars>>

Validate ==
  /\ lastCall.op = "init"
  /\ \E filename \in Filenames :
       lastCall' = Call("validate", 0, 0, "ok", 0)
                     @@ [filename |-> filename,
                         returned |-> FilenameValidator_validate(filename)]
  /\ UNCHANGED <<patternVars, settingVars, persistVars, imageVars>>

InitStrings ==
  /\ fieldMaps = <<>>
  /\ numGens = <<>>
  /\ spg = [g \in GenIds |-> NoGenerator]
  /\ lastCall = Call("init", 0, 0, "ok", 0)
  /\ setting = NoSetting
  /\ handlerLog = <<>>
  /\ connected = <<>>
  /\ group = <<>>
  /\ stores = <<>>
  /\ persistCalls = 0
  /\ dictHeap = <<>>
  /\ idsSetting = NoIdsSetting

NextStrings == Uniquify \/ IsValid \/ Validate

SpecStrings == InitStrings /\ [][NextStrings]_vars

\* C22: FilenameValidator.validate(s) returns a filename that
\* FilenameValidator.is_valid accepts, for every string s.
C22_ValidatedFilenameIsValid ==
  lastCall.op = "validate" => FilenameValidator_is_valid(lastCall.returned).is_valid

StartsWith(s, c) == s # <<>> /\ s[1] = c

EndsWith(s, c) == s # <<>> /\ s[Len(s)] = c

\* C23: FilenameValidator.is_valid(s) is true, with an empty status list, if
\* and only if s is not empty, holds no control character and none of the
\* characters <>:"/\|?*, neither starts nor ends with a space, does not end
\* with a period, and its name without the extension is no reserved device
\* name in any case of letters; otherwise it is false with a status list that
\* is not empty.
C23_IsValidIffRulesHold ==
  lastCall.op = "is_valid" =>
    LET s == lastCall.filename
        rules == /\ s # <<>>
                 /\ HasNo(s, ControlChars \cup SpecialChars)
                 /\ ~StartsWith(s, " ") /\ ~EndsWith(s, " ")
                 /\ ~EndsWith(s, ".")
                 /\ Upper(splitext(s).root) \notin _INVALID_NAMES
    IN /\ lastCall.is_valid = rules
       /\ lastCall.is_valid = (lastCall.status_messages = <<>>)

-----------------------------------------------------------------------------
(* ImageIDsAndDirectoriesSetting: the value is a dict (image ID -> import    *)
(* directory) object; the setting holds references to dict objects.          *)

\* calls on the setting
MaxIdsOps == 3

ImageIds == {1, 2}

\* import directories; "None" is the directory of an image without a file
Directories == {"None", "d"}

\* the dicts a caller passes, and the images gimp.image_list() reports with
\* the directory of each
Dicts == UNION {[ids -> Directories] : ids \in SUBSET ImageIds}

\* a new dict object on the heap: the heap after, and the reference
NewDict(heap, dict) == [heap |-> Append(heap, dict), ref |-> Len(heap) + 1]

\* Setting.__init__(name, default_value): default_value is a reference
IdsInit(default_value, given) ==
  [status |-> "ok", _value |-> default_value, _default_value |-> default_value,
   given |-> given, ops |-> 0]

\* the property ImageIDsAndDirectoriesSetting.value: a copy of the dict
IdsValue(heap, s) == heap[s._value]

\* the property Setting.default_value
IdsDefaultValue(heap, s) == heap[s._default_value]

\* Setting.set_value(value): value is a reference; Setting._validate accepts
\* every value
IdsSetValue(heap, s, value) == [heap |-> heap, setting |-> [s EXCEPT !._value = value], result |-> "ok"]

\* Setting.reset()
IdsReset(heap, s) ==
  [heap |-> heap, setting |-> [s EXCEPT !._value = s._default_value], result |-> "ok"]

\* update_directory(image_id, directory): the dict object is changed in place
update_directory(heap, s, image_id, directory) ==
  IF image_id \notin DOMAIN heap[s._value]
    THEN [heap |-> heap, setting |-> s, result |-> "KeyError"]
    ELSE [heap |-> [heap EXCEPT ![s._value] = DictSet(@, image_id, directory)],
          setting |-> s, result |-> "ok"]

\* update_image_ids_and_directories() with gimp.image_list() = current_images
\* (image ID -> directory of its file): a new dict object keeps the entries of
\* the images still open and gets one for each new image
update_image_ids_and_directories(heap, s, current_images) ==
  LET old == heap[s._value]
      made == NewDict(heap, [image_id \in DOMAIN current_images |->
                               IF image_id \in DOMAIN old THEN old[image_id]
                               ELSE current_images[image_id]])
  IN [heap |-> made.heap, setting |-> [s EXCEPT !._value = made.ref], result |-> "ok"]

InitImages ==
  /\ fieldMaps = <<>>
  /\ numGens = <<>>
  /\ spg = [g \in GenIds |-> NoGenerator]
  /\ lastCall = Call("init", 0, 0, "ok", 0)
  /\ setting = NoSetting
  /\ handlerLog = <<>>
  /\ connected = <<>>
  /\ group = <<>>
  /\ stores = <<>>
  /\ persistCalls = 0
  /\ dictHeap = <<>>
  /\ idsSetting = NoIdsSetting

\* a call on the ImageIDsAndDirectoriesSetting that ended as `done`
ApplyIds(op, done) ==
  /\ dictHeap' = done.heap
  /\ idsSetting' = [done.setting EXCEPT !.ops = idsSetting.ops + 1]
  /\ lastCall' = Call(op, 0, 0, done.result, 0)
  /\ UNCHANGED <<patternVars, settingVars, persistVars>>

IdsUsable == idsSetting.status = "ok" /\ idsSetting.ops < MaxIdsOps

\* d = {...}; ImageIDsAndDirectoriesSetting(name, d)
NewIdsSetting ==
  /\ idsSetting.status = "none"
  /\ \E default_value \in Dicts :
       LET made == NewDict(dictHeap, default_value)
       IN /\ dictHeap' = made.heap
          /\ idsSetting' = IdsInit(made.ref, default_value)
          /\ lastCall' = Call("new", 0, 0, "ok", 0)
  /\ UNCHANGED <<patternVars, settingVars, persistVars>>

\* setting.set_value({...})
SetIdsValue ==
  IdsUsable /\ \E value \in Dicts :
    LET made == NewDict(dictHeap, value)
    IN ApplyIds("set_value", IdsSetValue(made.heap, idsSetting, made.ref))

ResetIds == IdsUsable /\ ApplyIds("reset", IdsReset(dictHeap, idsSetting))

UpdateDirectory ==
  IdsUsable /\ \E image_id \in ImageIds, directory \in Directories :
    ApplyIds("update_directory", update_directory(dictHeap, idsSetting, image_id, directory))

UpdateImageIds ==
  IdsUsable /\ \E current_images \in Dicts :
    ApplyIds("update_image_ids_and_directories",
             update_image_ids_and_directories(dictHeap, idsSetting, current_images))

NextImages == NewIdsSetting \/ SetIdsValue \/ ResetIds \/ UpdateDirectory \/ UpdateImageIds

SpecImages == InitImages /\ [][NextImages]_vars

\* C30: default_value is after every sequence of calls what it was at
\* construction: set_value, reset, update_directory and
\* update_image_ids_and_directories change value only, and reset() makes value
\* the default given at construction.
C30_DefaultValueNeverChanges ==
  idsSetting.status = "ok"
    => /\ IdsDefaultValue(dictHeap, idsSetting) = idsSetting.given
       /\ lastCall.op = "reset" => IdsValue(dictHeap, idsSetting) = idsSetting.given

=============================================================================
